---- MODULE Spec2Model ----
(***************************************************************************)
(* Encrypted chunked photo album: the viewer's AlbumStore with its Web     *)
(* Worker and IndexedDB cache (src/src/lib/crypto.ts,                      *)
(* src/src/lib/worker/album-worker.ts), the producer's chunk planner,      *)
(* manifest generator and build script with its progress file (src/tools), *)
(* and the archive, manifest and envelope codecs between the two.          *)
(***************************************************************************)
EXTENDS Integers, Sequences, FiniteSets, TLC

(***************************************************************************)
(* Bounds of the model.                                                    *)
(***************************************************************************)
\* init timeouts of superseded init calls that may be armed at once
MaxStaleTimers == 1
\* builds of the album the server publishes in a run
MaxVersion == 2
\* chunk-level faults (network, corrupt bytes, IndexedDB) per worker
MaxFaults == 1
\* assets the producer's scan finds
MaxAssets == 3
\* parallel conversion jobs
MaxConcurrency == 2
\* producer processes started one after the other
MaxRuns == 2
\* entries of an archive
MaxTarFiles == 2
\* chunks of a manifest to decode
MaxManifestChunks == 2
\* bytes of a sealed payload
MaxPayload == 3
\* chunk size ceilings tried on createChunks
MaxCeiling == 3
\* MAX_CHUNK_SIZE (500 MB in crypto-file.ts), in units of the model's file sizes
MAX_CHUNK_SIZE == 2
\* the tar block size (album-worker.ts 18-19, 33, 37)
BlockSize == 512
\* bytes of the iv in front of the ciphertext (converter.ts 156, crypto.ts 7)
IV_LENGTH == 12

(***************************************************************************)
(* The album the viewer opens: three assets in two chunks.  Chunk 0 holds  *)
(* a photo and a live photo, chunk 1 holds one photo (no videos file).     *)
(* Every build of the album has this layout; builds differ in content (and *)
(* hash).                                                                  *)
(***************************************************************************)
Kinds == {"thumbnails", "originals", "videos"}
AssetIds == {0, 1, 2}
Callers == {"a", "b"}
\* what the callers ask for (getThumbnailBlob, getVideoBlob): the thumbnails
\* and videos of chunk 0, a video of chunk 1, which has no videos file, and a
\* thumbnail whose id is outside every range
Targets == {<<"thumbnails", 0>>, <<"thumbnails", 1>>, <<"videos", 0>>, <<"videos", 1>>,
            <<"videos", 2>>, <<"thumbnails", 3>>}
Passwords == {"good", "bad"}
AlbumTypes == <<"photo", "live", "photo">>
AlbumChunks ==
    <<[chunkId |-> 0, thumbnailsFile |-> "thumbs-0.enc", originalsFile |-> "originals-0.enc",
       videosFile |-> "videos-0.enc", startIndex |-> 0, endIndex |-> 1],
      [chunkId |-> 1, thumbnailsFile |-> "thumbs-1.enc", originalsFile |-> "originals-1.enc",
       videosFile |-> "null", startIndex |-> 2, endIndex |-> 2]>>
ChunkIds == {0, 1}
Keys == Kinds \X ChunkIds

\* the entries of the archive the server holds for (kind, chunkId)
ArchiveIds(kind, chunkId) ==
    {id \in AssetIds :
        /\ AlbumChunks[chunkId + 1].startIndex <= id
        /\ id <= AlbumChunks[chunkId + 1].endIndex
        /\ CASE kind = "thumbnails" -> TRUE
             [] kind = "originals" -> AlbumTypes[id + 1] \in {"photo", "live"}
             [] OTHER -> AlbumTypes[id + 1] \in {"video", "live"}}

VARIABLES
    \* ---- environment
    serverVer,      \* build of the album the server holds (its manifest hash)
    storedHash,     \* localStorage manifest-hash:<album>, 0 = not set
    idb,            \* IndexedDB asset stores: [kind][id] = build of the blob, 0 = none
    idbMeta,        \* IndexedDB meta store: [id] = build of the record, 0 = none
    deletePending,  \* deleteDatabase was requested and has not completed
    \* ---- AlbumStore fields
    manifest,       \* this.manifest: build of the manifest, 0 = null
    groups,         \* this.groups: build they were built from, 0 = []
    loading, error,
    worker,         \* this.worker: "null" | "live"
    pendingChunks,  \* [key] = TRUE iff the map has the key
    waiters,        \* [key] = callers whose resolver is in the key's list
    loadedChunks,
    onmessage,      \* worker.onmessage of the current worker: "init" | "chunk"
    timer,          \* the init timeout of the latest init is armed (not settled)
    staleTimers,    \* armed init timeouts of earlier, superseded init calls
    initResult,     \* what the latest init's promise resolved to
    \* ---- workers
    strays,         \* live workers the store holds no reference to
    wKey,           \* cryptoKey of the current worker: "none" | password
    wConn,          \* the worker's db.ts cache holds an open connection
    wStage,         \* handshake message the worker is handling
    wPassword,      \* password carried by the init message
    jobs,           \* handleFetchChunk invocations in progress
    outbox,         \* responses posted by the worker, not yet dispatched
    \* ---- callers of getAssetBlob
    calls,
    \* ---- history, per worker instance
    fetchCount,     \* [key] fetch requests posted to the worker
    errHandled,     \* [key] chunk-error responses handled
    readyCount,     \* [key] chunk-ready responses produced by the worker
    faults,         \* chunk-level faults injected
    mismatch,       \* validateCache of the current session found another hash
    oldEntries,     \* store entries persisted before that validation, still there
    \* ---- the producer (src/tools/main.ts)
    scanned,        \* scanAssets result: [type, size, month] per asset, by date
    concurrency,    \* jobs ?? availableParallelism()
    next,           \* mapParallel's shared cursor into toConvert
    converting,     \* indexes of toConvert whose conversion is in progress
    completedSet, convertErrors,
    phase,          \* step of main: "off" | "idle" | "convert" | "flush" |
                    \* "entries" | "chunks" | "manifest" | "done" | "cleanup" |
                    \* "exiting"
    entries, dates, \* step 5
    ceiling,        \* MAX_CHUNK_SIZE of the createChunks in use
    countVideos,    \* that createChunks tallies video sizes (crypto-file.ts) or not
    chunks,         \* ChunkInfo[] returned by createChunks
    archives,       \* the archives createChunks wrote, one record per chunk
    manifestOut,    \* the manifest written to manifest.enc
    tree,           \* the source directory: what a scan of it returns
    resumed,        \* completedSet as the resume check built it (lines 155, 164)
    progress,       \* the in-memory ProgressFile
    progressFile,   \* .progress.json on disk
    progressDirty, progressWriting,
    flushWrite,     \* text of the writeFile flushProgress awaits, NoFile = none
    finalWrite,     \* text of the final flush's writeFile (line 245), NoFile = none
    cache,          \* ids whose converted files are in the .cache directory
    runs,           \* producer processes started so far
    outcome,        \* [path] outcome of the latest conversion of the asset at the
                    \* source path: "none" | "ok" | "failed"
    \* ---- an archive on its way from writeEncryptedArchive to parseTar
    tarFiles,       \* the name -> bytes mapping, as a sequence in key order
    tarBytes,       \* the tar stream
    tarDamage,      \* what happened to the stream: "none" | "truncated" | "badsize"
    tarOut,         \* what parseTar gave
    tarStage,       \* "off" | "input" | "packed" | "damaged" | "parsed"
    \* ---- a manifest on its way from the worker into the store
    mfIn,           \* the decrypted content of manifest.enc
    mfMsg,          \* the worker's answer to decrypt-manifest
    mfManifest,     \* this.manifest: <<>> = null, <<m>> = m
    mfResult,       \* what init resolved: "off" | "pending" | "true" | "false"
    \* ---- an envelope
    envKey, envPayload,
    envIv,          \* the iv encrypt drew
    envSealed,      \* encrypt's result
    envOpened,      \* decrypt's result
    envStage        \* "off" | "input" | "sealed" | "opened"

storeVars == <<serverVer, storedHash, idb, idbMeta, deletePending, manifest, groups,
               loading, error, worker, pendingChunks, waiters, loadedChunks, onmessage,
               timer, staleTimers, initResult, strays, wKey, wConn, wStage, wPassword, jobs,
               outbox,
               calls, fetchCount, errHandled, readyCount, faults, mismatch, oldEntries>>

toolVars == <<scanned, concurrency, next, converting, completedSet, convertErrors, phase,
              entries, dates, ceiling, countVideos, chunks, archives, manifestOut, tree,
              resumed, progress, progressFile, progressDirty, progressWriting, flushWrite,
              finalWrite, cache, runs, outcome>>

tarVars == <<tarFiles, tarBytes, tarDamage, tarOut, tarStage>>

manifestVars == <<mfIn, mfMsg, mfManifest, mfResult>>

envelopeVars == <<envKey, envPayload, envIv, envSealed, envOpened, envStage>>

codecVars == <<tarVars, manifestVars, envelopeVars>>

vars == <<storeVars, toolVars, codecVars>>

ZeroCount == [k \in Keys |-> 0]
NoCall == [pc |-> "idle", kind |-> "thumbnails", id |-> 0, res |-> "none", ver |-> 0,
           stale |-> FALSE, sess |-> FALSE, old |-> FALSE]
EmptyStores == [k \in Kinds |-> [i \in AssetIds |-> 0]]

StoreInit ==
    /\ serverVer = 1
    /\ storedHash = 0
    /\ idb = EmptyStores
    /\ idbMeta = [i \in AssetIds |-> 0]
    /\ deletePending = FALSE
    /\ manifest = 0
    /\ groups = 0
    /\ loading = TRUE
    /\ error = "null"
    /\ worker = "null"
    /\ pendingChunks = [k \in Keys |-> FALSE]
    /\ waiters = [k \in Keys |-> {}]
    /\ loadedChunks = {}
    /\ onmessage = "init"
    /\ timer = FALSE
    /\ staleTimers = 0
    /\ initResult = "none"
    /\ strays = 0
    /\ wKey = "none"
    /\ wConn = FALSE
    /\ wStage = "idle"
    /\ wPassword = "good"
    /\ jobs = <<>>
    /\ outbox = <<>>
    /\ calls = [c \in Callers |-> NoCall]
    /\ fetchCount = ZeroCount
    /\ errHandled = ZeroCount
    /\ readyCount = ZeroCount
    /\ faults = 0
    /\ mismatch = FALSE
    /\ oldEntries = {}

(***************************************************************************)
(* Helpers.                                                                *)
(***************************************************************************)
Msg(type, kind, chunkId, ver, err) ==
    [type |-> type, kind |-> kind, chunkId |-> chunkId, ver |-> ver, error |-> err]

RemoveAt(s, i) == [j \in 1..(Len(s) - 1) |-> IF j < i THEN s[j] ELSE s[j + 1]]

\* worker.terminate(): the worker's handlers stop, its database connection is
\* closed, and its undelivered messages are discarded
WorkerGone ==
    /\ wKey' = "none"
    /\ wConn' = FALSE
    /\ wStage' = "idle"
    /\ jobs' = <<>>
    /\ outbox' = <<>>

\* a settle that resolves the promise and leaves the timeout armed
settleKeepsTimer(result) ==
    /\ timer' = timer
    /\ initResult' = IF timer THEN result ELSE initResult

\* settle(result) of the latest init: a no-op once settled, else it clears
\* the timeout and resolves the promise
settle(result) ==
    /\ timer' = FALSE
    /\ initResult' = IF timer THEN result ELSE initResult

(***************************************************************************)
(* AlbumStore.init                                                         *)
(***************************************************************************)
init(password) ==
    /\ timer => staleTimers < MaxStaleTimers
    /\ pendingChunks' = [k \in Keys |-> FALSE]
    /\ waiters' = [k \in Keys |-> {}]
    /\ loadedChunks' = {}
    /\ loading' = TRUE
    /\ error' = "null"
    /\ worker' = "live"
    /\ timer' = TRUE
    /\ staleTimers' = IF timer THEN staleTimers + 1 ELSE staleTimers
    /\ initResult' = "pending"
    /\ onmessage' = "init"
    /\ wKey' = "none"
    /\ wConn' = FALSE
    /\ wStage' = "init"
    /\ wPassword' = password
    /\ jobs' = <<>>
    /\ outbox' = <<>>
    \* the resolvers in pendingChunks are dropped: the calls waiting there never
    \* settle; what earlier calls resolved to is not kept either
    /\ calls' = [c \in Callers |-> NoCall]
    /\ fetchCount' = ZeroCount
    /\ errHandled' = ZeroCount
    /\ readyCount' = ZeroCount
    /\ faults' = 0
    /\ mismatch' = FALSE
    /\ UNCHANGED <<serverVer, storedHash, idb, idbMeta, deletePending, manifest, groups,
                   strays, oldEntries>>
    /\ UNCHANGED <<toolVars, codecVars>>

\* the timeout of the latest init fires: its worker is the closure's `worker`
InitTimeout ==
    /\ timer
    /\ error' = "Connection timeout"
    /\ loading' = FALSE
    /\ settle("false")
    /\ IF worker = "live"
       THEN worker' = "null" /\ WorkerGone
       ELSE UNCHANGED <<worker, wKey, wConn, wStage, jobs, outbox>>
    /\ UNCHANGED <<serverVer, storedHash, idb, idbMeta, deletePending, manifest, groups,
                   pendingChunks, waiters, loadedChunks, onmessage, staleTimers, strays,
                   wPassword, calls, fetchCount, errHandled, readyCount, faults, mismatch, oldEntries>>
    /\ UNCHANGED <<toolVars, codecVars>>

\* the timeout of a superseded init fires: its worker was terminated by the
\* init that followed, and this.worker is another worker
StaleInitTimeout ==
    /\ staleTimers > 0
    /\ staleTimers' = staleTimers - 1
    /\ error' = "Connection timeout"
    /\ loading' = FALSE
    /\ UNCHANGED <<serverVer, storedHash, idb, idbMeta, deletePending, manifest, groups,
                   worker, pendingChunks, waiters, loadedChunks, onmessage, timer,
                   initResult, strays, wKey, wConn, wStage, wPassword, jobs, outbox, calls,
                   fetchCount, errHandled, readyCount, faults, mismatch, oldEntries>>
    /\ UNCHANGED <<toolVars, codecVars>>

\* worker.onerror of the current worker
WorkerOnError ==
    /\ worker = "live"
    /\ error' = "Worker error"
    /\ loading' = FALSE
    /\ worker' = "null"
    /\ WorkerGone
    /\ settle("false")
    /\ UNCHANGED <<serverVer, storedHash, idb, idbMeta, deletePending, manifest, groups,
                   pendingChunks, waiters, loadedChunks, onmessage, staleTimers, strays,
                   wPassword, calls, fetchCount, errHandled, readyCount, faults, mismatch, oldEntries>>
    /\ UNCHANGED <<toolVars, codecVars>>

\* a destroy that drops the reference and leaves the worker running
destroyDropsReference ==
    /\ worker = "live"
    /\ worker' = "null"
    /\ strays' = strays + 1
    /\ UNCHANGED <<serverVer, storedHash, idb, idbMeta, deletePending, manifest, groups,
                   loading, error, pendingChunks, waiters, loadedChunks, onmessage, timer,
                   staleTimers, initResult, wKey, wConn, wStage, wPassword, jobs, outbox,
                   calls, fetchCount, errHandled, readyCount, faults, mismatch, oldEntries>>
    /\ UNCHANGED <<toolVars, codecVars>>

destroy ==
    /\ worker = "live"
    /\ worker' = "null"
    /\ WorkerGone
    /\ UNCHANGED <<serverVer, storedHash, idb, idbMeta, deletePending, manifest, groups,
                   loading, error, pendingChunks, waiters, loadedChunks, onmessage, timer,
                   staleTimers, initResult, strays, wPassword, calls, fetchCount,
                   errHandled, readyCount, faults, mismatch, oldEntries>>
    /\ UNCHANGED <<toolVars, codecVars>>

(***************************************************************************)
(* Cache validation                                                        *)
(***************************************************************************)
\* a clearCache that deletes nothing
clearCacheSkipped ==
    UNCHANGED <<deletePending, calls>>

\* closeDb + indexedDB.deleteDatabase: the page's cached connection is closed
\* (handles held by running getAssetBlob calls go stale) and the delete is
\* queued; it completes once every other connection is closed
clearCache ==
    /\ deletePending' = TRUE
    /\ calls' = [c \in Callers |->
                    IF calls[c].pc = "waiting"
                    THEN [calls[c] EXCEPT !.stale = TRUE] ELSE calls[c]]

\* a validateCache that clears the store whenever a manifest is decrypted
validateCacheAlwaysClears(newHash) ==
    /\ storedHash' = newHash
    /\ mismatch' = (storedHash # 0 /\ storedHash # newHash)
    /\ oldEntries' = {e \in Kinds \X AssetIds : idb[e[1]][e[2]] # 0}
    /\ deletePending' = TRUE
    /\ calls' = [c \in Callers |->
                    IF calls[c].pc = "waiting"
                    THEN [calls[c] EXCEPT !.stale = TRUE] ELSE calls[c]]

validateCache(newHash) ==
    /\ storedHash' = newHash
    /\ mismatch' = (storedHash # 0 /\ storedHash # newHash)
    /\ oldEntries' = IF storedHash # 0 /\ storedHash # newHash
                     THEN {e \in Kinds \X AssetIds : idb[e[1]][e[2]] # 0}
                     ELSE oldEntries
    /\ IF storedHash # 0 /\ storedHash # newHash
       THEN clearCache
       ELSE UNCHANGED <<deletePending, calls>>

\* the worker's `blocking` callback (versionchange): its cached connection is
\* closed and forgotten; a handle a running handleFetchChunk holds is closed
WorkerBlocking ==
    /\ deletePending
    /\ wConn
    /\ wConn' = FALSE
    /\ jobs' = [j \in 1..Len(jobs) |->
                   IF jobs[j].stage = "meta" THEN [jobs[j] EXCEPT !.stale = TRUE] ELSE jobs[j]]
    /\ UNCHANGED <<serverVer, storedHash, idb, idbMeta, deletePending, manifest, groups,
                   loading, error, worker, pendingChunks, waiters, loadedChunks, onmessage,
                   timer, staleTimers, initResult, strays, wKey, wStage, wPassword, outbox,
                   calls, fetchCount, errHandled, readyCount, faults, mismatch, oldEntries>>
    /\ UNCHANGED <<toolVars, codecVars>>

\* the queued deleteDatabase runs: no connection is open any more
DeleteDatabaseComplete ==
    /\ deletePending
    /\ ~wConn
    /\ idb' = EmptyStores
    /\ idbMeta' = [i \in AssetIds |-> 0]
    /\ deletePending' = FALSE
    /\ oldEntries' = {}
    /\ UNCHANGED <<serverVer, storedHash, manifest, groups, loading, error, worker,
                   pendingChunks, waiters, loadedChunks, onmessage, timer, staleTimers,
                   initResult, strays, wKey, wConn, wStage, wPassword, jobs, outbox, calls,
                   fetchCount, errHandled, readyCount, faults, mismatch>>
    /\ UNCHANGED <<toolVars, codecVars>>

\* the album is rebuilt and published: new content, new manifest hash
Rebuild ==
    /\ serverVer < MaxVersion
    /\ serverVer' = serverVer + 1
    /\ UNCHANGED <<storedHash, idb, idbMeta, deletePending, manifest, groups, loading, error,
                   worker, pendingChunks, waiters, loadedChunks, onmessage, timer, staleTimers,
                   initResult, strays, wKey, wConn, wStage, wPassword, jobs,
                   outbox, calls, fetchCount, errHandled, readyCount, faults, mismatch, oldEntries>>
    /\ UNCHANGED <<toolVars, codecVars>>

(***************************************************************************)
(* The worker's handshake handlers (album-worker.ts)                       *)
(***************************************************************************)
\* handleInit: deriveKey, getDb (an open waits behind a queued delete)
handleInit ==
    /\ wStage = "init"
    /\ ~deletePending
    /\ wStage' = "idle"
    /\ \/ /\ wKey' = wPassword
          /\ wConn' = TRUE
          /\ outbox' = Append(outbox, Msg("init-ready", "thumbnails", 0, 0, "null"))
       \/ /\ UNCHANGED <<wKey, wConn>>
          /\ outbox' = Append(outbox, Msg("manifest-error", "thumbnails", 0, 0, "init failed"))
    /\ UNCHANGED <<serverVer, storedHash, idb, idbMeta, deletePending, manifest, groups,
                   loading, error, worker, pendingChunks, waiters, loadedChunks, onmessage,
                   timer, staleTimers, initResult, strays, wPassword, jobs, calls,
                   fetchCount, errHandled, readyCount, faults, mismatch, oldEntries>>
    /\ UNCHANGED <<toolVars, codecVars>>

\* handleDecryptManifest: fetch, decrypt (fails under a wrong key), hash, parse
handleDecryptManifest ==
    /\ wStage = "manifest"
    /\ wStage' = "idle"
    /\ \/ /\ wKey = "good"
          /\ outbox' = Append(outbox, Msg("manifest-decrypted", "thumbnails", 0, serverVer, "null"))
       \/ /\ wKey # "good"
          /\ outbox' = Append(outbox, Msg("manifest-error", "thumbnails", 0, 0, "decrypt failed"))
       \/ outbox' = Append(outbox, Msg("manifest-error", "thumbnails", 0, 0, "HTTP 404"))
    /\ UNCHANGED <<serverVer, storedHash, idb, idbMeta, deletePending, manifest, groups,
                   loading, error, worker, pendingChunks, waiters, loadedChunks, onmessage,
                   timer, staleTimers, initResult, strays, wKey, wConn, wPassword, jobs, calls,
                   fetchCount, errHandled, readyCount, faults, mismatch, oldEntries>>
    /\ UNCHANGED <<toolVars, codecVars>>

(***************************************************************************)
(* worker.onmessage while init is in progress (crypto.ts 209-239)          *)
(***************************************************************************)
OnInitReady ==
    /\ outbox # <<>>
    /\ onmessage = "init"
    /\ Head(outbox).type = "init-ready"
    /\ outbox' = Tail(outbox)
    /\ wStage' = "manifest"
    /\ UNCHANGED <<serverVer, storedHash, idb, idbMeta, deletePending, manifest, groups,
                   loading, error, worker, pendingChunks, waiters, loadedChunks, onmessage,
                   timer, staleTimers, initResult, strays, wKey, wConn, wPassword, jobs, calls,
                   fetchCount, errHandled, readyCount, faults, mismatch, oldEntries>>
    /\ UNCHANGED <<toolVars, codecVars>>

OnManifestDecrypted ==
    /\ outbox # <<>>
    /\ onmessage = "init"
    /\ Head(outbox).type = "manifest-decrypted"
    /\ outbox' = Tail(outbox)
    /\ manifest' = Head(outbox).ver
    /\ groups' = Head(outbox).ver
    /\ validateCache(Head(outbox).ver)
    /\ loading' = FALSE
    /\ onmessage' = "chunk"
    /\ settle("true")
    /\ UNCHANGED <<serverVer, idb, idbMeta, error, worker, pendingChunks, waiters,
                   loadedChunks, staleTimers, strays, wKey, wConn, wStage, wPassword, jobs,
                   fetchCount, errHandled, readyCount, faults>>
    /\ UNCHANGED <<toolVars, codecVars>>

\* a manifest-error handler that records the error and leaves the worker running
OnManifestErrorKeepsWorker ==
    /\ outbox # <<>>
    /\ onmessage = "init"
    /\ Head(outbox).type = "manifest-error"
    /\ outbox' = Tail(outbox)
    /\ error' = Head(outbox).error
    /\ loading' = FALSE
    /\ settle("false")
    /\ UNCHANGED <<serverVer, storedHash, idb, idbMeta, deletePending, manifest, groups,
                   worker, pendingChunks, waiters, loadedChunks, onmessage, staleTimers,
                   strays, wKey, wConn, wStage, wPassword, jobs, calls, fetchCount,
                   errHandled, readyCount, faults, mismatch, oldEntries>>
    /\ UNCHANGED <<toolVars, codecVars>>

OnManifestError ==
    /\ outbox # <<>>
    /\ onmessage = "init"
    /\ Head(outbox).type = "manifest-error"
    /\ error' = Head(outbox).error
    /\ loading' = FALSE
    /\ worker' = "null"
    /\ WorkerGone
    /\ settle("false")
    /\ UNCHANGED <<serverVer, storedHash, idb, idbMeta, deletePending, manifest, groups,
                   pendingChunks, waiters, loadedChunks, onmessage, staleTimers, strays,
                   wPassword, calls, fetchCount, errHandled, readyCount, faults, mismatch, oldEntries>>
    /\ UNCHANGED <<toolVars, codecVars>>

\* a chunk response dispatched to the init handler matches none of its branches
OnUnhandledMessage ==
    /\ outbox # <<>>
    /\ onmessage = "init"
    /\ Head(outbox).type \in {"chunk-ready", "chunk-error"}
    /\ outbox' = Tail(outbox)
    /\ UNCHANGED <<serverVer, storedHash, idb, idbMeta, deletePending, manifest, groups,
                   loading, error, worker, pendingChunks, waiters, loadedChunks, onmessage,
                   timer, staleTimers, initResult, strays, wKey, wConn, wStage, wPassword,
                   jobs, calls, fetchCount, errHandled, readyCount, faults, mismatch, oldEntries>>
    /\ UNCHANGED <<toolVars, codecVars>>

(***************************************************************************)
(* Chunk management (crypto.ts 318-410)                                    *)
(***************************************************************************)
\* a settled call keeps what it resolved to; its arguments are forgotten
Done(call, res, ver) ==
    [pc |-> "done", kind |-> "thumbnails", id |-> 0, res |-> res, ver |-> ver,
     stale |-> FALSE, sess |-> call.sess,
     old |-> (res = "blob" /\ <<call.kind, call.id>> \in oldEntries)]

\* db.get(kind, id) through the handle the call took at its start
ReRead(call) ==
    IF call.stale THEN Done(call, "rejected", 0)
    ELSE IF call.id \in AssetIds /\ idb[call.kind][call.id] # 0
    THEN Done(call, "blob", idb[call.kind][call.id])
    ELSE Done(call, "null", 0)

\* handleChunkMessage without the pendingChunks.delete of line 339
wakePendingKeepsKey(chunkKey) ==
    IF pendingChunks[chunkKey]
    THEN /\ calls' = [c \in Callers |->
                        IF c \in waiters[chunkKey] THEN ReRead(calls[c]) ELSE calls[c]]
         /\ waiters' = [waiters EXCEPT ![chunkKey] = {}]
         /\ UNCHANGED pendingChunks
    ELSE UNCHANGED <<calls, pendingChunks, waiters>>

\* a handler that runs the resolvers of every key and empties pendingChunks
wakePendingAll(chunkKey) ==
    IF pendingChunks[chunkKey]
    THEN /\ calls' = [c \in Callers |->
                        IF \E k \in Keys : c \in waiters[k] THEN ReRead(calls[c]) ELSE calls[c]]
         /\ pendingChunks' = [k \in Keys |-> FALSE]
         /\ waiters' = [k \in Keys |-> {}]
    ELSE UNCHANGED <<calls, pendingChunks, waiters>>

\* lines 336-340: the resolvers of the key run (each caller re-reads the
\* store) and the key leaves pendingChunks
wakePending(chunkKey) ==
    IF pendingChunks[chunkKey]
    THEN /\ calls' = [c \in Callers |->
                        IF c \in waiters[chunkKey] THEN ReRead(calls[c]) ELSE calls[c]]
         /\ pendingChunks' = [pendingChunks EXCEPT ![chunkKey] = FALSE]
         /\ waiters' = [waiters EXCEPT ![chunkKey] = {}]
    ELSE UNCHANGED <<calls, pendingChunks, waiters>>

handleChunkMessage ==
    /\ outbox # <<>>
    /\ onmessage = "chunk"
    /\ Head(outbox).type \in {"chunk-ready", "chunk-error"}
    /\ LET msg == Head(outbox)
           chunkKey == <<msg.kind, msg.chunkId>>
       IN /\ outbox' = Tail(outbox)
          /\ loadedChunks' = IF msg.type = "chunk-ready"
                             THEN loadedChunks \cup {chunkKey} ELSE loadedChunks
          /\ errHandled' = IF msg.type = "chunk-error"
                           THEN [errHandled EXCEPT ![chunkKey] = @ + 1] ELSE errHandled
          /\ wakePending(chunkKey)
    /\ UNCHANGED <<serverVer, storedHash, idb, idbMeta, deletePending, manifest, groups,
                   loading, error, worker, onmessage, timer, staleTimers, initResult, strays,
                   wKey, wConn, wStage, wPassword, jobs, fetchCount, readyCount, faults,
                   mismatch, oldEntries>>
    /\ UNCHANGED <<toolVars, codecVars>>

FileOf(kind, chunkId) ==
    CASE kind = "thumbnails" -> AlbumChunks[chunkId + 1].thumbnailsFile
      [] kind = "originals" -> AlbumChunks[chunkId + 1].originalsFile
      [] OTHER -> AlbumChunks[chunkId + 1].videosFile

\* requestChunk without the pendingChunks test of line 348
ShouldRequestUnlessLoaded(kind, chunkId) ==
    /\ manifest # 0
    /\ worker # "null"
    /\ chunkId \in ChunkIds
    /\ <<kind, chunkId>> \notin loadedChunks
    /\ FileOf(kind, chunkId) # "null"

\* requestChunk without the loadedChunks test of line 348
ShouldRequestUnlessPending(kind, chunkId) ==
    /\ manifest # 0
    /\ worker # "null"
    /\ chunkId \in ChunkIds
    /\ ~pendingChunks[<<kind, chunkId>>]
    /\ FileOf(kind, chunkId) # "null"

\* the conditions under which requestChunk posts a fetch (lines 344-356)
ShouldRequest(kind, chunkId) ==
    /\ manifest # 0
    /\ worker # "null"
    /\ chunkId \in ChunkIds
    /\ <<kind, chunkId>> \notin loadedChunks
    /\ ~pendingChunks[<<kind, chunkId>>]
    /\ FileOf(kind, chunkId) # "null"

\* what the local store holds for the chunk's entries: the blobs of its asset
\* store and, for a thumbnails chunk (the one that carries meta.json), the
\* records of the meta store
StoredFor(kind, chunkId) ==
    [assets |-> [id \in ArchiveIds(kind, chunkId) |-> idb[kind][id]],
     meta |-> [id \in ArchiveIds(kind, chunkId) |->
                  IF kind = "thumbnails" THEN idbMeta[id] ELSE 0]]

\* a job keeps, as history, what the store held for it when it was requested
requestChunk(kind, chunkId) ==
    IF ShouldRequest(kind, chunkId)
    THEN /\ pendingChunks' = [pendingChunks EXCEPT ![<<kind, chunkId>>] = TRUE]
         /\ jobs' = Append(jobs, [kind |-> kind, chunkId |-> chunkId, stage |-> "fetch",
                                  ver |-> 0, stale |-> FALSE,
                                  before |-> StoredFor(kind, chunkId)])
         /\ fetchCount' = [fetchCount EXCEPT ![<<kind, chunkId>>] = @ + 1]
    ELSE UNCHANGED <<pendingChunks, jobs, fetchCount>>

\* the chunk ids whose range holds id, in manifest order (find returns the first)
findChunkForId(id) ==
    IF manifest = 0 THEN {}
    ELSE {ch \in ChunkIds : /\ id >= AlbumChunks[ch + 1].startIndex
                            /\ id <= AlbumChunks[ch + 1].endIndex}

\* getAssetBlob without the store lookup of lines 399-400
existingIgnored(kind, id) == 0

\* line 399: db.get(kind, id), 0 = undefined
existing(kind, id) == IF id \in AssetIds THEN idb[kind][id] ELSE 0

\* getAssetBlob(kind, id).  The awaits of getDb and of the first db.get are
\* taken with the synchronous part that follows them: IndexedDB orders the read
\* before every later write, and getDb opens behind a queued delete.
getAssetBlob(c, kind, id) ==
    /\ calls[c].pc \in {"idle", "done"}
    /\ ~deletePending
    /\ LET call == [pc |-> "reading", kind |-> kind, id |-> id, res |-> "none", ver |-> 0,
                    stale |-> FALSE, sess |-> (initResult = "true" /\ worker = "live"),
                    old |-> FALSE]
           found == findChunkForId(id)
       IN IF existing(kind, id) # 0
          THEN /\ calls' = [calls EXCEPT ![c] = Done(call, "blob", existing(kind, id))]
               /\ UNCHANGED <<pendingChunks, waiters, jobs, fetchCount>>
          ELSE IF found = {}
          THEN /\ calls' = [calls EXCEPT ![c] = Done(call, "null", 0)]
               /\ UNCHANGED <<pendingChunks, waiters, jobs, fetchCount>>
          ELSE LET chunkId == CHOOSE ch \in found : \A o \in found : ch <= o
                   chunkKey == <<kind, chunkId>>
               IN /\ requestChunk(kind, chunkId)
                  \* waitForChunk
                  /\ IF chunkKey \notin loadedChunks /\ pendingChunks'[chunkKey]
                     THEN /\ waiters' = [waiters EXCEPT ![chunkKey] = @ \cup {c}]
                          /\ calls' = [calls EXCEPT ![c] = [call EXCEPT !.pc = "waiting"]]
                     ELSE /\ waiters' = waiters
                          /\ calls' = [calls EXCEPT ![c] = ReRead(call)]
    /\ UNCHANGED <<serverVer, storedHash, idb, idbMeta, deletePending, manifest, groups,
                   loading, error, worker, loadedChunks, onmessage, timer, staleTimers, initResult,
                   strays, wKey, wConn, wStage, wPassword, outbox, errHandled,
                   readyCount, faults, mismatch, oldEntries>>
    /\ UNCHANGED <<toolVars, codecVars>>

(***************************************************************************)
(* handleFetchChunk (album-worker.ts 85-151), one action per await group.  *)
(* Any awaited step may throw; the catch answers chunk-error.              *)
(***************************************************************************)
Reply(i, type) ==
    /\ outbox' = Append(outbox, Msg(type, jobs[i].kind, jobs[i].chunkId, jobs[i].ver, "null"))
    /\ jobs' = RemoveAt(jobs, i)
    /\ readyCount' = IF type = "chunk-ready"
                     THEN [readyCount EXCEPT ![<<jobs[i].kind, jobs[i].chunkId>>] = @ + 1]
                     ELSE readyCount

Fault == /\ faults < MaxFaults
         /\ faults' = faults + 1

\* lines 92-101: fetch, decryptData (throws without a key or under a wrong
\* key), gunzip, parseTar
FetchAndDecode(i) ==
    /\ i \in 1..Len(jobs)
    /\ jobs[i].stage = "fetch"
    /\ \/ /\ wKey = "good"
          /\ jobs' = [jobs EXCEPT ![i] = [@ EXCEPT !.stage = "store", !.ver = serverVer]]
          /\ UNCHANGED <<outbox, readyCount, faults>>
       \/ /\ wKey # "good"
          /\ Reply(i, "chunk-error")
          /\ UNCHANGED faults
       \/ /\ Fault
          /\ Reply(i, "chunk-error")
    /\ UNCHANGED <<serverVer, storedHash, idb, idbMeta, deletePending, manifest, groups,
                   loading, error, worker, pendingChunks, waiters, loadedChunks, onmessage,
                   timer, staleTimers, initResult, strays, wKey, wConn, wStage, wPassword,
                   calls, fetchCount, errHandled, mismatch, oldEntries>>
    /\ UNCHANGED <<toolVars, codecVars>>

\* an asset transaction that puts nothing
PutAssetsNothing(kind, chunkId, ver) == idb

\* the blobs the asset transaction puts: one per archive entry with a numeric id
PutAssets(kind, chunkId, ver) ==
    [idb EXCEPT ![kind] = [id \in AssetIds |->
                              IF id \in ArchiveIds(kind, chunkId) THEN ver ELSE idb[kind][id]]]

\* lines 116-130: getDb (the cached connection, or an open that waits behind
\* a queued delete) and the asset transaction, which commits or aborts whole
StoreAssets(i) ==
    /\ i \in 1..Len(jobs)
    /\ jobs[i].stage = "store"
    /\ wConn \/ ~deletePending
    /\ wConn' = TRUE
    /\ \/ /\ idb' = PutAssets(jobs[i].kind, jobs[i].chunkId, jobs[i].ver)
          /\ oldEntries' = oldEntries \ ({jobs[i].kind} \X ArchiveIds(jobs[i].kind, jobs[i].chunkId))
          /\ IF jobs[i].kind = "thumbnails"
             THEN /\ jobs' = [jobs EXCEPT ![i] = [@ EXCEPT !.stage = "meta"]]
                  /\ UNCHANGED <<outbox, readyCount>>
             ELSE Reply(i, "chunk-ready")
          /\ UNCHANGED faults
       \/ /\ Fault
          /\ Reply(i, "chunk-error")
          /\ UNCHANGED <<idb, oldEntries>>
    /\ UNCHANGED <<serverVer, storedHash, idbMeta, deletePending, manifest, groups,
                   loading, error, worker, pendingChunks, waiters, loadedChunks, onmessage,
                   timer, staleTimers, initResult, strays, wKey, wStage, wPassword,
                   calls, fetchCount, errHandled, mismatch>>
    /\ UNCHANGED <<toolVars, codecVars>>

\* lines 133-142: the metadata transaction, on the handle taken at line 116
StoreMeta(i) ==
    /\ i \in 1..Len(jobs)
    /\ jobs[i].stage = "meta"
    /\ \/ /\ ~jobs[i].stale
          /\ idbMeta' = [id \in AssetIds |->
                            IF id \in ArchiveIds("thumbnails", jobs[i].chunkId)
                            THEN jobs[i].ver ELSE idbMeta[id]]
          /\ Reply(i, "chunk-ready")
          /\ UNCHANGED faults
       \/ /\ jobs[i].stale
          /\ Reply(i, "chunk-error")
          /\ UNCHANGED <<idbMeta, faults>>
       \/ /\ Fault
          /\ Reply(i, "chunk-error")
          /\ UNCHANGED idbMeta
    /\ UNCHANGED <<serverVer, storedHash, idb, deletePending, manifest, groups,
                   loading, error, worker, pendingChunks, waiters, loadedChunks, onmessage,
                   timer, staleTimers, initResult, strays, wKey, wConn, wStage, wPassword,
                   calls, fetchCount, errHandled, mismatch, oldEntries>>
    /\ UNCHANGED <<toolVars, codecVars>>

(***************************************************************************)
(* The producer: createChunks (src/tools/crypto-file.ts 129-228, reading   *)
(* files from the cache; src/tools/lib/chunker.ts 46-141, in memory)       *)
(***************************************************************************)
AssetTypes == {"photo", "live", "video"}
\* sizes of converted files, in units of the scaled chunk ceiling
Sizes == {1, 2}
\* capture months, in date order
Months == {1, 2}

\* a next chunk that starts on the id the previous one ended on
NextStartIndexOverlaps(lastId) == lastId

\* line 221 (chunker.ts 131): where the next chunk's range starts
NextStartIndex(lastId) == lastId + 1

\* loop state before the first entry (lines 134-141)
ChunkerStart ==
    [chunks |-> <<>>, archives |-> <<>>, chunkId |-> 0, chunkStartIndex |-> 0,
     currentAssetSize |-> 0, chunkEntries |-> <<>>]

\* an originals archive that is written only when it has an entry
WritesOriginalsIfAny(withAsset) == withAsset # {}

\* lines 190-197 (chunker.ts 100-107): the originals archive is written for
\* every chunk, whatever assetFiles holds
WritesOriginals(withAsset) == TRUE

\* line 201 (chunker.ts 111): the videos archive is written when videoFiles
\* has a key
WritesVideos(withVideo) == withVideo # {}

\* lines 157-224: the archives of the current chunk are written, its
\* ChunkInfo is pushed, and the accumulators are reset
FlushChunk(st, chunkEntries) ==
    LET last == chunkEntries[Len(chunkEntries)]
        all == {chunkEntries[j].id : j \in 1..Len(chunkEntries)}
        withAsset == {chunkEntries[j].id : j \in {j \in 1..Len(chunkEntries) :
                                                     chunkEntries[j].assetSize > 0}}
        withVideo == {chunkEntries[j].id : j \in {j \in 1..Len(chunkEntries) :
                                                     chunkEntries[j].videoSize > 0}}
    IN [chunks |-> Append(st.chunks,
                     [chunkId |-> st.chunkId,
                      thumbnailsFile |-> <<"thumbs", st.chunkId>>,
                      originalsFile |-> <<"originals", st.chunkId>>,
                      videosFile |-> IF WritesVideos(withVideo)
                                     THEN <<"videos", st.chunkId>> ELSE <<>>,
                      startIndex |-> st.chunkStartIndex,
                      endIndex |-> last.id]),
        archives |-> Append(st.archives,
                       [thumbs |-> all, meta |-> all, assets |-> withAsset,
                        videos |-> withVideo,
                        files |-> {<<"thumbs", st.chunkId>>}
                                     \cup (IF WritesOriginals(withAsset)
                                           THEN {<<"originals", st.chunkId>>} ELSE {})
                                     \cup (IF WritesVideos(withVideo)
                                           THEN {<<"videos", st.chunkId>>} ELSE {})]),
        chunkId |-> st.chunkId + 1,
        chunkStartIndex |-> NextStartIndex(last.id),
        currentAssetSize |-> 0,
        chunkEntries |-> <<>>]

\* a chunk that never counts as full
ChunkFullNever(size, max) == FALSE

\* a chunk that counts as full as soon as it holds any payload
ChunkFullWhenNonEmpty(size, max) == size > 0

\* line 155 (chunker.ts 85): the tally, with the current entry added, has
\* reached the ceiling
ChunkFull(size, max) == size >= max

\* the for loop of createChunks from entry i on.  max is MAX_CHUNK_SIZE;
\* tallyVideos tells the two sources apart: crypto-file.ts counts asset and
\* video sizes toward the budget, chunker.ts asset sizes only
RECURSIVE ChunkLoop(_, _, _, _, _)
ChunkLoop(ents, i, st, max, tallyVideos) ==
    IF i > Len(ents) THEN st
    ELSE LET entry == ents[i]
             chunkEntries == Append(st.chunkEntries, entry)
             size == st.currentAssetSize + entry.assetSize
                        + (IF tallyVideos THEN entry.videoSize ELSE 0)
             isLast == i = Len(ents)
             chunkFull == ChunkFull(size, max)
         IN IF chunkFull \/ isLast
            THEN ChunkLoop(ents, i + 1, FlushChunk(st, chunkEntries), max, tallyVideos)
            ELSE ChunkLoop(ents, i + 1,
                           [st EXCEPT !.chunkEntries = chunkEntries,
                                      !.currentAssetSize = size],
                           max, tallyVideos)

createChunks(ents, max, tallyVideos) == ChunkLoop(ents, 1, ChunkerStart, max, tallyVideos)

(***************************************************************************)
(* generateManifest (src/tools/lib/converter.ts 248-279)                   *)
(***************************************************************************)
\* the loop over dates: the index in the array is taken as the asset's id
RECURSIVE MonthLoop(_, _, _)
MonthLoop(ds, id, months) ==
    IF id >= Len(ds) THEN months
    ELSE LET monthKey == ds[id + 1]
             n == Len(months)
         IN IF n = 0 \/ months[n].date # monthKey
            THEN MonthLoop(ds, id + 1,
                           Append(months, [date |-> monthKey, startId |-> id, count |-> 1]))
            ELSE MonthLoop(ds, id + 1, [months EXCEPT ![n].count = @ + 1])

\* a generator that closes a group after every asset
generateManifestPerAsset(ds, chunkInfos) ==
    [totalAssets |-> Len(ds), chunks |-> chunkInfos,
     months |-> [i \in 1..Len(ds) |-> [date |-> ds[i], startId |-> i - 1, count |-> 1]]]

generateManifest(ds, chunkInfos) ==
    [totalAssets |-> Len(ds), chunks |-> chunkInfos, months |-> MonthLoop(ds, 0, <<>>)]

(***************************************************************************)
(* main (src/tools/main.ts): scan, convert in parallel, build entries,     *)
(* chunk, write the manifest                                               *)
(***************************************************************************)
\* the scans of a source tree with t assets, sorted by date (scanner.ts 78);
\* path stands for the asset's imagePath / videoPath
Scans(t) ==
    {[i \in 1..t |-> [path |-> i, type |-> sc[i].type, size |-> sc[i].size,
                      month |-> sc[i].month]] :
        sc \in {sc \in [1..t -> [type : AssetTypes, size : Sizes, month : Months]] :
                   \A i \in 1..t, j \in 1..t : i < j => sc[i].month <= sc[j].month}}

NoManifest == [totalAssets |-> 0, chunks |-> <<>>, months |-> <<>>]

\* lines 69-72: the source key of a scanned asset
sourceKey(asset) == asset.path

\* line 150
currentSources == [i \in 1..Len(scanned) |-> sourceKey(scanned[i])]

SetOf(s) == {s[i] : i \in 1..Len(s)}

\* .progress.json is absent; also: no write is in flight
NoFile == [state |-> "none", sources |-> <<>>, completed |-> <<>>]

\* .progress.json holds a truncated text: the process died inside writeFile
TornFile == [state |-> "torn", sources |-> <<>>, completed |-> <<>>]

\* the in-memory ProgressFile of a process that has not built one
NoProgress == [sources |-> <<>>, completed |-> <<>>]

\* saveProgress (lines 61-63): JSON.stringify(progress) is evaluated when
\* saveProgress is called, the file gets that text when writeFile completes
Snapshot(p) == [state |-> "ok", sources |-> p.sources, completed |-> p.completed]

\* loadProgress (lines 52-59): null when the file is missing or does not parse
loadProgress == IF progressFile.state = "ok" THEN progressFile ELSE NoFile

\* a resume check that compares the lengths of the two lists only
SameSourcesByLength(saved, current) == Len(saved) = Len(current)

\* line 154: JSON.stringify(progress.sources) === JSON.stringify(currentSources)
SameSources(saved, current) == saved = current

NoOutcome == [p \in 1..MaxAssets |-> "none"]

\* the producer is not running
ToolOff ==
    /\ scanned = <<>>
    /\ concurrency = 1
    /\ next = 0
    /\ converting = {}
    /\ completedSet = {}
    /\ convertErrors = 0
    /\ phase = "off"
    /\ entries = <<>>
    /\ dates = <<>>
    /\ ceiling = MAX_CHUNK_SIZE
    /\ countVideos = TRUE
    /\ chunks = <<>>
    /\ archives = <<>>
    /\ manifestOut = NoManifest
    /\ tree = <<>>
    /\ resumed = {}
    /\ progress = NoProgress
    /\ progressFile = NoFile
    /\ progressDirty = FALSE
    /\ progressWriting = FALSE
    /\ flushWrite = NoFile
    /\ finalWrite = NoFile
    /\ cache = {}
    /\ runs = 0
    /\ outcome = NoOutcome

\* a fresh run (no progress file) after the scan found at least one asset
\* and the resume check (lines 163-166) saved an empty record
ToolInit ==
    /\ \E t \in 1..MaxAssets : scanned \in Scans(t)
    /\ concurrency \in 1..MaxConcurrency
    /\ next = 0
    /\ converting = {}
    /\ completedSet = {}
    /\ convertErrors = 0
    /\ phase = "convert"
    /\ entries = <<>>
    /\ dates = <<>>
    /\ ceiling = MAX_CHUNK_SIZE
    /\ countVideos = TRUE
    /\ chunks = <<>>
    /\ archives = <<>>
    /\ manifestOut = NoManifest
    /\ tree = scanned
    /\ resumed = {}
    /\ progress = [sources |-> currentSources, completed |-> <<>>]
    /\ progressFile = Snapshot(progress)
    /\ progressDirty = FALSE
    /\ progressWriting = FALSE
    /\ flushWrite = NoFile
    /\ finalWrite = NoFile
    /\ cache = {}
    /\ runs = 1
    /\ outcome = NoOutcome

\* a to-convert list that ignores the completed set
toConvertAll == [i \in 1..Len(scanned) |-> i - 1]

\* lines 175-177: ids still to convert, in scan order, without the ids that
\* were completed when the run started
toConvert == SelectSeq([i \in 1..Len(scanned) |-> i - 1], LAMBDA id : id \notin resumed)

\* the process is gone: everything it held in memory is lost, files stay
ProcessGone ==
    /\ scanned' = <<>>
    /\ concurrency' = 1
    /\ next' = 0
    /\ converting' = {}
    /\ completedSet' = {}
    /\ convertErrors' = 0
    /\ phase' = "idle"
    /\ entries' = <<>>
    /\ dates' = <<>>
    /\ chunks' = <<>>
    /\ resumed' = {}
    /\ progress' = NoProgress
    /\ progressDirty' = FALSE
    /\ progressWriting' = FALSE
    /\ flushWrite' = NoFile
    /\ finalWrite' = NoFile
    /\ UNCHANGED <<ceiling, countVideos, archives, manifestOut, tree, cache, runs, outcome>>

\* what .progress.json holds once the process has died: what it held, or for
\* a writeFile in flight its text or a truncated text
FileAfterDeath ==
    {progressFile}
        \cup (IF flushWrite # NoFile THEN {flushWrite, TornFile} ELSE {})
        \cup (IF finalWrite # NoFile THEN {finalWrite, TornFile} ELSE {})

\* the producer is started: scan, resume check, step 4's setup (lines 131-183)
Start ==
    /\ phase = "idle"
    /\ runs < MaxRuns
    /\ runs' = runs + 1
    /\ scanned' = tree
    /\ LET current == [i \in 1..Len(tree) |-> sourceKey(tree[i])]
           loaded == loadProgress
       IN IF loaded.state = "ok" /\ SameSources(loaded.sources, current)
          THEN /\ resumed' = SetOf(loaded.completed)
               /\ progress' = [sources |-> loaded.sources, completed |-> loaded.completed]
               /\ UNCHANGED <<progressFile, cache>>
          ELSE /\ cache' = IF loaded.state = "ok" THEN {} ELSE cache
               /\ resumed' = {}
               /\ progress' = [sources |-> current, completed |-> <<>>]
               /\ progressFile' = Snapshot(progress')
    /\ completedSet' = resumed'
    /\ concurrency' \in 1..MaxConcurrency
    /\ next' = 0
    /\ converting' = {}
    /\ convertErrors' = 0
    /\ phase' = "convert"
    /\ UNCHANGED <<entries, dates, ceiling, countVideos, chunks, archives, manifestOut, tree,
                   progressDirty, progressWriting, flushWrite, finalWrite, outcome>>
    /\ UNCHANGED <<storeVars, codecVars>>

\* the process is killed, at any point of a run
Kill ==
    /\ phase \notin {"off", "idle"}
    /\ progressFile' \in FileAfterDeath
    /\ ProcessGone
    /\ UNCHANGED <<storeVars, codecVars>>

\* a pool in which an item is taken whether or not a worker is free
TakeNextUnbounded ==
    /\ phase = "convert"
    /\ next < Len(toConvert)
    /\ converting' = converting \cup {next}
    /\ next' = next + 1
    /\ UNCHANGED <<scanned, concurrency, completedSet, convertErrors, phase, entries, dates,
                   ceiling, countVideos, chunks, archives, manifestOut, tree, resumed,
                   progress, progressFile, progressDirty, progressWriting, flushWrite,
                   finalWrite, cache, runs, outcome>>
    /\ UNCHANGED <<storeVars, codecVars>>

\* mapParallel's worker (lines 30-39): take the next item
TakeNext ==
    /\ phase = "convert"
    /\ next < Len(toConvert)
    /\ Cardinality(converting) < concurrency
    /\ converting' = converting \cup {next}
    /\ next' = next + 1
    /\ UNCHANGED <<scanned, concurrency, completedSet, convertErrors, phase, entries, dates,
                   ceiling, countVideos, chunks, archives, manifestOut, tree, resumed,
                   progress, progressFile, progressDirty, progressWriting, flushWrite,
                   finalWrite, cache, runs, outcome>>
    /\ UNCHANGED <<storeVars, codecVars>>

\* a flushProgress that drops the request when a write is in flight
flushProgressDropsLate(p) ==
    IF progressWriting
    THEN UNCHANGED <<progressDirty, progressWriting, flushWrite>>
    ELSE /\ progressWriting' = TRUE
         /\ flushWrite' = Snapshot(p)
         /\ UNCHANGED progressDirty

\* flushProgress (lines 189-205) up to its first await, called after
\* progress became p
flushProgress(p) ==
    IF progressWriting
    THEN /\ progressDirty' = TRUE
         /\ UNCHANGED <<progressWriting, flushWrite>>
    ELSE /\ progressWriting' = TRUE
         /\ flushWrite' = Snapshot(p)
         /\ UNCHANGED progressDirty

\* lines 211-233: the conversion succeeded: its files are in the cache, the
\* id is marked completed and the record is flushed
ConvertOk(i) ==
    /\ phase = "convert"
    /\ i \in converting
    /\ converting' = converting \ {i}
    /\ cache' = cache \cup {toConvert[i + 1]}
    /\ completedSet' = completedSet \cup {toConvert[i + 1]}
    /\ progress' = [progress EXCEPT !.completed = Append(@, toConvert[i + 1])]
    /\ flushProgress(progress')
    /\ outcome' = [outcome EXCEPT ![scanned[toConvert[i + 1] + 1].path] = "ok"]
    /\ UNCHANGED <<scanned, concurrency, next, convertErrors, phase, entries, dates,
                   ceiling, countVideos, chunks, archives, manifestOut, tree, resumed,
                   progressFile, finalWrite, runs>>
    /\ UNCHANGED <<storeVars, codecVars>>

\* a failure that makes the pool stop taking further items
ConvertFailStopsPool(i) ==
    /\ phase = "convert"
    /\ i \in converting
    /\ converting' = converting \ {i}
    /\ convertErrors' = convertErrors + 1
    /\ next' = Len(toConvert)
    /\ outcome' = [outcome EXCEPT ![scanned[toConvert[i + 1] + 1].path] = "failed"]
    /\ UNCHANGED <<scanned, concurrency, completedSet, phase, entries, dates,
                   ceiling, countVideos, chunks, archives, manifestOut, tree, resumed,
                   progress, progressFile, progressDirty, progressWriting, flushWrite,
                   finalWrite, cache, runs>>
    /\ UNCHANGED <<storeVars, codecVars>>

\* lines 234-239: the conversion threw; mapParallel keeps the error and goes on
ConvertFail(i) ==
    /\ phase = "convert"
    /\ i \in converting
    /\ converting' = converting \ {i}
    /\ convertErrors' = convertErrors + 1
    /\ outcome' = [outcome EXCEPT ![scanned[toConvert[i + 1] + 1].path] = "failed"]
    /\ UNCHANGED <<scanned, concurrency, next, completedSet, phase, entries, dates,
                   ceiling, countVideos, chunks, archives, manifestOut, tree, resumed,
                   progress, progressFile, progressDirty, progressWriting, flushWrite,
                   finalWrite, cache, runs>>
    /\ UNCHANGED <<storeVars, codecVars>>

\* flushProgress after an await (lines 197-201): the write it waited for is
\* done; it writes again if the record was marked dirty meanwhile
SaveProgressDone ==
    /\ flushWrite # NoFile
    /\ progressFile' = flushWrite
    /\ IF progressDirty
       THEN /\ progressDirty' = FALSE
            /\ flushWrite' = Snapshot(progress)
            /\ UNCHANGED progressWriting
       ELSE /\ progressWriting' = FALSE
            /\ flushWrite' = NoFile
            /\ UNCHANGED progressDirty
    /\ UNCHANGED <<scanned, concurrency, next, converting, completedSet, convertErrors, phase,
                   entries, dates, ceiling, countVideos, chunks, archives, manifestOut, tree,
                   resumed, progress, finalWrite, cache, runs, outcome>>
    /\ UNCHANGED <<storeVars, codecVars>>

\* lines 207, 245: mapParallel has returned, the final saveProgress is called
\* (not when there was nothing to convert)
FinalFlush ==
    /\ phase = "convert"
    \* every pool worker has left its loop; Array.from({ length: concurrency })
    \* of line 41 makes no worker at all for a length below 1
    /\ next = Len(toConvert) \/ concurrency < 1
    /\ converting = {}
    /\ IF Len(toConvert) > 0
       THEN /\ finalWrite' = Snapshot(progress)
            /\ phase' = "flush"
       ELSE /\ UNCHANGED finalWrite
            /\ phase' = "entries"
    /\ UNCHANGED <<scanned, concurrency, next, converting, completedSet, convertErrors,
                   entries, dates, ceiling, countVideos, chunks, archives, manifestOut, tree,
                   resumed, progress, progressFile, progressDirty, progressWriting,
                   flushWrite, cache, runs, outcome>>
    /\ UNCHANGED <<storeVars, codecVars>>

\* line 245: the final saveProgress is done
FinalFlushDone ==
    /\ phase = "flush"
    /\ progressFile' = finalWrite
    /\ finalWrite' = NoFile
    /\ phase' = "entries"
    /\ UNCHANGED <<scanned, concurrency, next, converting, completedSet, convertErrors,
                   entries, dates, ceiling, countVideos, chunks, archives, manifestOut, tree,
                   resumed, progress, progressDirty, progressWriting, flushWrite, cache,
                   runs, outcome>>
    /\ UNCHANGED <<storeVars, codecVars>>

\* the entry step 5 builds for scan index i (lines 263-275)
EntryOf(i) ==
    LET asset == scanned[i + 1]
    IN [id |-> i, type |-> asset.type, date |-> asset.month,
        assetSize |-> IF asset.type \in {"photo", "live"} THEN asset.size ELSE 0,
        videoSize |-> IF asset.type \in {"video", "live"} THEN asset.size ELSE 0]

\* the for loop of step 5 from scan index i on (lines 258-277)
RECURSIVE EntryLoop(_, _)
EntryLoop(i, acc) ==
    IF i >= Len(scanned) THEN acc
    ELSE IF i \notin completedSet THEN EntryLoop(i + 1, acc)
    ELSE EntryLoop(i + 1, [entries |-> Append(acc.entries, EntryOf(i)),
                           dates |-> Append(acc.dates, scanned[i + 1].month)])

\* step 5
BuildEntries ==
    /\ phase = "entries"
    /\ LET built == EntryLoop(0, [entries |-> <<>>, dates |-> <<>>])
       IN /\ entries' = built.entries
          /\ dates' = built.dates
    /\ phase' = "chunks"
    /\ UNCHANGED <<scanned, concurrency, next, converting, completedSet, convertErrors,
                   ceiling, countVideos, chunks, archives, manifestOut, tree, resumed,
                   progress, progressFile, progressDirty, progressWriting, flushWrite,
                   finalWrite, cache, runs, outcome>>
    /\ UNCHANGED <<storeVars, codecVars>>

\* the cache files createChunks reads exist (crypto-file.ts 147-152, 165-176)
CacheHolds(ents) == \A j \in 1..Len(ents) : ents[j].id \in cache

\* step 6 (line 281)
CreateChunks ==
    /\ phase = "chunks"
    /\ CacheHolds(entries)
    /\ LET made == createChunks(entries, ceiling, countVideos)
       IN /\ chunks' = made.chunks
          /\ archives' = made.archives
    /\ phase' = "manifest"
    /\ UNCHANGED <<scanned, concurrency, next, converting, completedSet, convertErrors,
                   entries, dates, ceiling, countVideos, manifestOut, tree, resumed,
                   progress, progressFile, progressDirty, progressWriting, flushWrite,
                   finalWrite, cache, runs, outcome>>
    /\ UNCHANGED <<storeVars, codecVars>>

\* step 6 when a cache file of an entry is missing: reading it throws
\* (crypto-file.ts 166), the rejection ends the process
ReadCacheFails ==
    /\ phase = "chunks"
    /\ ~CacheHolds(entries)
    /\ progressFile' \in FileAfterDeath
    /\ ProcessGone
    /\ UNCHANGED <<storeVars, codecVars>>

\* step 7 (lines 291-294)
WriteManifest ==
    /\ phase = "manifest"
    /\ manifestOut' = generateManifest(dates, chunks)
    /\ phase' = "done"
    /\ UNCHANGED <<scanned, concurrency, next, converting, completedSet, convertErrors,
                   entries, dates, ceiling, countVideos, chunks, archives, tree, resumed,
                   progress, progressFile, progressDirty, progressWriting, flushWrite,
                   finalWrite, cache, runs, outcome>>
    /\ UNCHANGED <<storeVars, codecVars>>

\* step 8, line 298: the conversion cache is removed
RemoveCache ==
    /\ phase = "done"
    /\ cache' = {}
    /\ phase' = "cleanup"
    /\ UNCHANGED <<scanned, concurrency, next, converting, completedSet, convertErrors,
                   entries, dates, ceiling, countVideos, chunks, archives, manifestOut, tree,
                   resumed, progress, progressFile, progressDirty, progressWriting,
                   flushWrite, finalWrite, runs, outcome>>
    /\ UNCHANGED <<storeVars, codecVars>>

\* step 8, line 299: the progress file is removed
RemoveProgress ==
    /\ phase = "cleanup"
    /\ progressFile' = NoFile
    /\ phase' = "exiting"
    /\ UNCHANGED <<scanned, concurrency, next, converting, completedSet, convertErrors,
                   entries, dates, ceiling, countVideos, chunks, archives, manifestOut, tree,
                   resumed, progress, progressDirty, progressWriting, flushWrite, finalWrite,
                   cache, runs, outcome>>
    /\ UNCHANGED <<storeVars, codecVars>>

\* the script has run to its end and no write is pending: the process exits
Exit ==
    /\ phase = "exiting"
    /\ flushWrite = NoFile
    /\ UNCHANGED progressFile
    /\ ProcessGone
    /\ UNCHANGED <<storeVars, codecVars>>

\* the asset found at source path p
PathAsset(p) ==
    [path |-> p, type |-> IF p = 1 THEN "photo" ELSE IF p = 2 THEN "live" ELSE "video",
     size |-> 1, month |-> 1]

\* source trees of one to MaxAssets assets taken in the same month: path 1
\* comes first, the other paths follow in any scan order
SourceTrees ==
    {[i \in DOMAIN ps |-> PathAsset(ps[i])] :
        ps \in {ps \in UNION {[1..t -> 1..MaxAssets] : t \in 1..MaxAssets} :
                   /\ ps[1] = 1
                   /\ \A i \in DOMAIN ps, j \in DOMAIN ps : i # j => ps[i] # ps[j]}}

\* the source tree changes while the producer is not running
ChangeSources ==
    /\ phase = "idle"
    /\ tree' \in SourceTrees \ {tree}
    /\ UNCHANGED <<scanned, concurrency, next, converting, completedSet, convertErrors, phase,
                   entries, dates, ceiling, countVideos, chunks, archives, manifestOut,
                   resumed, progress, progressFile, progressDirty, progressWriting,
                   flushWrite, finalWrite, cache, runs, outcome>>
    /\ UNCHANGED <<storeVars, codecVars>>

(***************************************************************************)
(* Archives: Bun.Archive as writeEncryptedArchive uses it                  *)
(* (src/tools/crypto-file.ts 111-122) and parseTar                         *)
(* (src/src/lib/worker/album-worker.ts 14-42).  Bytes are 0..255, names    *)
(* are sequences of character codes.                                       *)
(***************************************************************************)
Zeros(n) == [k \in 1..n |-> 0]

Least(S) == CHOOSE x \in S : \A y \in S : x <= y

\* Uint8Array slice / subarray (begin, end): both ends are clamped to the
\* length of the array
Slice(buffer, begin, end) ==
    LET b == IF begin > Len(buffer) THEN Len(buffer) ELSE begin
        e == IF end > Len(buffer) THEN Len(buffer) ELSE end
    IN IF e <= b THEN <<>> ELSE SubSeq(buffer, b + 1, e)

\* the ustar header block of a regular file: name at 0..99, size as eleven
\* octal digits and a NUL at 124..135, type flag '0' at 156, magic "ustar" at
\* 257..261; the fields parseTar never reads are left zero
TarHeader(name, size) ==
    [k \in 1..BlockSize |->
        IF k <= Len(name) THEN name[k]
        ELSE IF k \in 125..135 THEN 48 + ((size \div (8 ^ (135 - k))) % 8)
        ELSE IF k = 157 THEN 48
        ELSE IF k \in 258..262 THEN <<117, 115, 116, 97, 114>>[k - 257]
        ELSE 0]

\* zero bytes that fill a blob of n bytes up to a whole number of blocks
Padding(n) == Zeros((BlockSize - (n % BlockSize)) % BlockSize)

\* the entries of files from index i on, each a header block and the padded
\* blob
RECURSIVE PackFrom(_, _)
PackFrom(files, i) ==
    IF i > Len(files) THEN <<>>
    ELSE TarHeader(files[i].name, Len(files[i].data)) \o files[i].data
             \o Padding(Len(files[i].data)) \o PackFrom(files, i + 1)

\* new Bun.Archive(files) written out (crypto-file.ts 117): the entries in
\* key order, then two zero blocks
pack(files) == PackFrom(files, 1) \o Zeros(2 * BlockSize)

\* lines 22-25: the characters of the name field up to the first NUL
HeaderName(header) ==
    LET stop == {i \in 1..100 : header[i] = 0}
    IN SubSeq(header, 1, IF stop = {} THEN 100 ELSE Least(stop) - 1)

\* lines 27-30: the characters of the size field up to the first NUL
HeaderSizeStr(header) ==
    LET stop == {i \in 125..136 : header[i] = 0}
    IN SubSeq(header, 125, IF stop = {} THEN 136 ELSE Least(stop) - 1)

WhiteSpace == {9, 10, 11, 12, 13, 32}

\* String.prototype.trim
Trim(str) ==
    LET ink == {i \in 1..Len(str) : str[i] \notin WhiteSpace}
    IN IF ink = {} THEN <<>>
       ELSE SubSeq(str, Least(ink), CHOOSE i \in ink : \A j \in ink : j <= i)

\* the value of the first n characters of str read as octal digits
RECURSIVE OctalValue(_, _)
OctalValue(str, n) ==
    IF n = 0 THEN 0 ELSE OctalValue(str, n - 1) * 8 + (str[n] - 48)

\* parseInt(str, 8): an optional sign, then the longest run of octal digits;
\* NaN when there is no digit
parseInt8(str) ==
    LET signed == Len(str) > 0 /\ str[1] \in {43, 45}
        body == IF signed THEN SubSeq(str, 2, Len(str)) ELSE str
        bad == {i \in 1..Len(body) : body[i] \notin 48..55}
        n == IF bad = {} THEN Len(body) ELSE Least(bad) - 1
    IN IF n = 0 THEN [nan |-> TRUE, value |-> 0]
       ELSE [nan |-> FALSE,
             value |-> IF signed /\ str[1] = 45 THEN 0 - OctalValue(body, n)
                       ELSE OctalValue(body, n)]

\* line 31: parseInt(sizeStr.trim(), 8) || 0
HeaderSize(header) ==
    LET parsed == parseInt8(Trim(HeaderSizeStr(header)))
    IN IF parsed.nan THEN 0 ELSE parsed.value

\* files.set(name, data) on a Map kept as a set of <<name, data>> pairs
MapSet(files, name, data) == {f \in files : f[1] # name} \cup {<<name, data>>}

\* line 35: the entry is registered
Registers(size, name) == size > 0 /\ name # <<>>

\* the while loop of parseTar from offset on (lines 18-39)
RECURSIVE TarLoop(_, _, _)
TarLoop(buffer, offset, files) ==
    IF ~(offset < Len(buffer) - BlockSize) THEN files
    ELSE LET header == Slice(buffer, offset, offset + BlockSize)
         IN IF \A k \in 1..Len(header) : header[k] = 0 THEN files
            ELSE LET name == HeaderName(header)
                     size == HeaderSize(header)
                     data == offset + BlockSize
                 IN IF Registers(size, name)
                    THEN TarLoop(buffer,
                                 data + ((size + BlockSize - 1) \div BlockSize) * BlockSize,
                                 MapSet(files, name, Slice(buffer, data, data + size)))
                    ELSE TarLoop(buffer, data, files)

\* parseTar never throws: its result is always a Map
parseTar(buffer) == [error |-> FALSE, files |-> TarLoop(buffer, 0, {})]

\* names of one character and of a hundred characters
TarNames == {<<97>>, <<98>>, [k \in 1..100 |-> 110]}

\* blobs: empty, one byte, exactly one block, one block and a byte
TarBlobs == {<<>>, <<7>>, [k \in 1..BlockSize |-> 1], [k \in 1..(BlockSize + 1) |-> 2]}

\* name -> bytes mappings with up to MaxTarFiles unique names, in key order
TarInputs ==
    {fs \in UNION {[1..n -> [name : TarNames, data : TarBlobs]] : n \in 0..MaxTarFiles} :
        \A i \in DOMAIN fs, j \in DOMAIN fs : i # j => fs[i].name # fs[j].name}

\* no archive is being handled
TarOff ==
    /\ tarFiles = <<>>
    /\ tarBytes = <<>>
    /\ tarDamage = "none"
    /\ tarOut = [error |-> FALSE, files |-> {}]
    /\ tarStage = "off"

\* a mapping is about to be archived
TarInit ==
    /\ tarFiles \in TarInputs
    /\ tarBytes = <<>>
    /\ tarDamage = "none"
    /\ tarOut = [error |-> FALSE, files |-> {}]
    /\ tarStage = "input"

\* crypto-file.ts 117-118: the archive of the files is written and read back
Pack ==
    /\ tarStage = "input"
    /\ tarBytes' = pack(tarFiles)
    /\ tarStage' = "packed"
    /\ UNCHANGED <<tarFiles, tarDamage, tarOut>>
    /\ UNCHANGED <<storeVars, toolVars, manifestVars, envelopeVars>>

\* offset of the blob of the last entry in the archive of files
LastDataOffset(files) == Len(PackFrom(files, 1)) - Len(files[Len(files)].data)
                            - Len(Padding(Len(files[Len(files)].data)))

\* the stream handed to parseTar ends inside the final blob, or right before
\* it: the blob is shorter than the size its header states
TruncateArchive ==
    /\ tarStage = "packed"
    /\ Len(tarFiles) > 0
    /\ LET size == Len(tarFiles[Len(tarFiles)].data)
       IN /\ size > 0
          /\ \E kept \in {0, 1, size - 1} :
                tarBytes' = SubSeq(tarBytes, 1, LastDataOffset(tarFiles) + kept)
    /\ tarDamage' = "truncated"
    /\ tarStage' = "damaged"
    /\ UNCHANGED <<tarFiles, tarOut>>
    /\ UNCHANGED <<storeVars, toolVars, manifestVars, envelopeVars>>

\* the stream handed to parseTar has a header whose size field is no octal
\* number: the field of the first entry reads "xxxxxxxxxxx"
CorruptSizeField ==
    /\ tarStage = "packed"
    /\ Len(tarFiles) > 0
    /\ tarBytes' = [k \in 1..Len(tarBytes) |-> IF k \in 125..135 THEN 120 ELSE tarBytes[k]]
    /\ tarDamage' = "badsize"
    /\ tarStage' = "damaged"
    /\ UNCHANGED <<tarFiles, tarOut>>
    /\ UNCHANGED <<storeVars, toolVars, manifestVars, envelopeVars>>

\* album-worker.ts 101: const files = parseTar(tarData)
ParseTar ==
    /\ tarStage \in {"packed", "damaged"}
    /\ tarOut' = parseTar(tarBytes)
    /\ tarStage' = "parsed"
    /\ UNCHANGED <<tarFiles, tarBytes, tarDamage>>
    /\ UNCHANGED <<storeVars, toolVars, manifestVars, envelopeVars>>

(***************************************************************************)
(* Manifest decoding: handleDecryptManifest once the bytes are decrypted   *)
(* (album-worker.ts 73-79) and the store's manifest-decrypted handler      *)
(* (crypto.ts 220-229), on the content of the manifest                     *)
(***************************************************************************)
\* decrypted manifest.enc payloads: a text that is no JSON, or a manifest
\* with any total and any chunk ranges
ManifestInputs ==
    {[json |-> FALSE, totalAssets |-> 0, chunks |-> <<>>]}
        \cup [json : {TRUE}, totalAssets : 0..MaxAssets,
              chunks : UNION {[1..n -> [startIndex : 0..(MaxAssets - 1),
                                        endIndex : 0..(MaxAssets - 1)]] :
                                 n \in 0..MaxManifestChunks}]

NoMessage == [type |-> "none"]

\* no manifest is being decoded
DecodeOff ==
    /\ mfIn = [json |-> FALSE, totalAssets |-> 0, chunks |-> <<>>]
    /\ mfMsg = NoMessage
    /\ mfManifest = <<>>
    /\ mfResult = "off"

\* init is waiting for the worker's answer to decrypt-manifest
DecodeInit ==
    /\ mfIn \in ManifestInputs
    /\ mfMsg = NoMessage
    /\ mfManifest = <<>>
    /\ mfResult = "pending"

\* album-worker.ts 76-81: JSON.parse of the decrypted text, cast to Manifest
\* and returned as it is; a text that does not parse makes the catch answer
decodeManifest(decrypted) ==
    IF decrypted.json
    THEN [type |-> "manifest-decrypted",
          manifest |-> [totalAssets |-> decrypted.totalAssets, chunks |-> decrypted.chunks]]
    ELSE [type |-> "manifest-error"]

\* handleDecryptManifest (album-worker.ts 68-83) from the decrypted bytes on
DecodeManifest ==
    /\ mfResult = "pending"
    /\ mfMsg = NoMessage
    /\ mfMsg' = decodeManifest(mfIn)
    /\ UNCHANGED <<mfIn, mfManifest, mfResult>>
    /\ UNCHANGED <<storeVars, toolVars, tarVars, envelopeVars>>

\* crypto.ts 220-229: manifest-decrypted installs msg.manifest, init resolves
\* true
InstallManifest ==
    /\ mfResult = "pending"
    /\ mfMsg.type = "manifest-decrypted"
    /\ mfManifest' = <<mfMsg.manifest>>
    /\ mfResult' = "true"
    /\ UNCHANGED <<mfIn, mfMsg>>
    /\ UNCHANGED <<storeVars, toolVars, tarVars, envelopeVars>>

\* crypto.ts 231-238: manifest-error, init resolves false
RefuseManifest ==
    /\ mfResult = "pending"
    /\ mfMsg.type = "manifest-error"
    /\ mfResult' = "false"
    /\ UNCHANGED <<mfIn, mfMsg, mfManifest>>
    /\ UNCHANGED <<storeVars, toolVars, tarVars, envelopeVars>>

(***************************************************************************)
(* The envelope: encrypt (src/tools/lib/converter.ts 202-214) and decrypt  *)
(* (converter.ts 220-227, src/src/lib/crypto.ts 50-56) around AES-GCM      *)
(***************************************************************************)
RECURSIVE Sum(_)
Sum(s) == IF s = <<>> THEN 0 ELSE s[1] + Sum(Tail(s))

\* AES-GCM stands for itself as a stream cipher with a 16 byte tag, each a
\* function of the key and of every byte of the iv
KeyStream(key, iv, i) == (key * 7 + Sum(iv) * 3 + Len(iv) + i * 5) % 256

GcmTag(key, iv, body) ==
    [j \in 1..16 |-> (key * 11 + Sum(iv) + Len(iv) + Sum(body) + Len(body) + j) % 256]

\* crypto.subtle.encrypt({name: 'AES-GCM', iv}, key, data): ciphertext, tag
GcmEncrypt(key, iv, data) ==
    LET body == [i \in 1..Len(data) |-> (data[i] + KeyStream(key, iv, i)) % 256]
    IN body \o GcmTag(key, iv, body)

\* crypto.subtle.decrypt: throws when the tag does not match
GcmDecrypt(key, iv, ciphertext) ==
    IF Len(ciphertext) < 16 THEN [error |-> TRUE, data |-> <<>>]
    ELSE LET body == SubSeq(ciphertext, 1, Len(ciphertext) - 16)
             tag == SubSeq(ciphertext, Len(ciphertext) - 15, Len(ciphertext))
         IN IF tag # GcmTag(key, iv, body) THEN [error |-> TRUE, data |-> <<>>]
            ELSE [error |-> FALSE,
                  data |-> [i \in 1..Len(body) |->
                               (body[i] + 256 - KeyStream(key, iv, i)) % 256]]

\* converter.ts 202-214 with the iv getRandomValues returned
encrypt(key, data, iv) == iv \o GcmEncrypt(key, iv, data)

\* an open that takes the first 16 bytes as the iv
IvOfSixteen(data) == Slice(data, 0, 16)

\* converter.ts 221 (crypto.ts 51): const iv = data.slice(0, IV_LENGTH)
IvOf(data) == Slice(data, 0, IV_LENGTH)

\* converter.ts 220-227, crypto.ts 50-56
decrypt(key, data) == GcmDecrypt(key, IvOf(data), Slice(data, IV_LENGTH, Len(data)))

EnvelopeKeys == {1, 2}

\* values getRandomValues may return
Ivs == {[k \in 1..IV_LENGTH |-> 0], [k \in 1..IV_LENGTH |-> (k * 37) % 256]}

\* payloads of up to MaxPayload bytes
Payloads == UNION {[1..n -> {0, 1, 255}] : n \in 0..MaxPayload}

\* nothing is being sealed
EnvelopeOff ==
    /\ envKey = 0
    /\ envPayload = <<>>
    /\ envIv = <<>>
    /\ envSealed = <<>>
    /\ envOpened = [error |-> FALSE, data |-> <<>>]
    /\ envStage = "off"

\* a payload is about to be sealed under a key
EnvelopeInit ==
    /\ envKey \in EnvelopeKeys
    /\ envPayload \in Payloads
    /\ envIv = <<>>
    /\ envSealed = <<>>
    /\ envOpened = [error |-> FALSE, data |-> <<>>]
    /\ envStage = "input"

\* encrypt(key, data)
Seal ==
    /\ envStage = "input"
    /\ envIv' \in Ivs
    /\ envSealed' = encrypt(envKey, envPayload, envIv')
    /\ envStage' = "sealed"
    /\ UNCHANGED <<envKey, envPayload, envOpened>>
    /\ UNCHANGED <<storeVars, toolVars, tarVars, manifestVars>>

\* decrypt(key, data) under the key the envelope was sealed with
Open ==
    /\ envStage = "sealed"
    /\ envOpened' = decrypt(envKey, envSealed)
    /\ envStage' = "opened"
    /\ UNCHANGED <<envKey, envPayload, envIv, envSealed>>
    /\ UNCHANGED <<storeVars, toolVars, tarVars, manifestVars>>

\* no archive, manifest or envelope is being handled
CodecOff == TarOff /\ DecodeOff /\ EnvelopeOff

(***************************************************************************)
(* The viewer: specification                                               *)
(***************************************************************************)
NextFetch ==
    \/ \E password \in Passwords : init(password)
    \/ InitTimeout
    \/ StaleInitTimeout
    \/ WorkerOnError
    \/ destroy
    \/ handleInit
    \/ handleDecryptManifest
    \/ OnInitReady
    \/ OnManifestDecrypted
    \/ OnManifestError
    \/ OnUnhandledMessage
    \/ handleChunkMessage
    \/ \E i \in 1..Len(jobs) : FetchAndDecode(i)
    \/ \E i \in 1..Len(jobs) : StoreAssets(i)
    \/ \E i \in 1..Len(jobs) : StoreMeta(i)
    \/ \E c \in Callers, t \in Targets : getAssetBlob(c, t[1], t[2])

InitFetch == StoreInit /\ ToolOff /\ CodecOff

SpecFetch == InitFetch /\ [][NextFetch]_vars

NextCache ==
    \/ \E password \in Passwords : init(password)
    \/ InitTimeout
    \/ StaleInitTimeout
    \/ WorkerOnError
    \/ destroy
    \/ handleInit
    \/ handleDecryptManifest
    \/ OnInitReady
    \/ OnManifestDecrypted
    \/ OnManifestError
    \/ OnUnhandledMessage
    \/ handleChunkMessage
    \/ \E i \in 1..Len(jobs) : FetchAndDecode(i)
    \/ \E i \in 1..Len(jobs) : StoreAssets(i)
    \/ \E i \in 1..Len(jobs) : StoreMeta(i)
    \/ \E t \in Targets : getAssetBlob("a", t[1], t[2])
    \/ WorkerBlocking
    \/ DeleteDatabaseComplete
    \/ Rebuild

InitCache == StoreInit /\ ToolOff /\ CodecOff

SpecCache == InitCache /\ [][NextCache]_vars

(***************************************************************************)
(* The producer: specifications                                            *)
(***************************************************************************)
NextTool ==
    \/ TakeNext
    \/ \E i \in converting : ConvertOk(i)
    \/ \E i \in converting : ConvertFail(i)
    \/ SaveProgressDone
    \/ FinalFlush
    \/ FinalFlushDone
    \/ BuildEntries
    \/ CreateChunks
    \/ WriteManifest
    \/ RemoveCache
    \/ RemoveProgress
    \/ Exit

InitTool == StoreInit /\ ToolInit /\ CodecOff

SpecTool == InitTool /\ [][NextTool]_vars

\* the text that follows -j/--jobs on the command line, <<>> when the flag
\* is absent (line 102 takes any non-empty text)
JobsArgs == {<<>>, <<"0">>, <<"1">>, <<"2">>, <<"-", "1">>, <<"-", "2">>}

DigitValue(ch) == CASE ch = "0" -> 0 [] ch = "1" -> 1 [] OTHER -> 2

\* the value of a run of decimal digits
RECURSIVE DigitsValue(_)
DigitsValue(text) ==
    IF text = <<>> THEN 0
    ELSE 10 * DigitsValue(SubSeq(text, 1, Len(text) - 1)) + DigitValue(text[Len(text)])

\* parseInt(text, 10) of a numeral: an optional sign, then digits
parseInt(text) ==
    IF Head(text) = "-" THEN 0 - DigitsValue(Tail(text)) ELSE DigitsValue(text)

\* lines 102-103, 174: jobs ?? availableParallelism()
concurrencyOf(arg, cores) == IF arg = <<>> THEN cores ELSE parseInt(arg)

\* a fresh run started with any -j value the command line takes
JobsInit ==
    /\ \E t \in 1..MaxAssets : scanned \in Scans(t)
    /\ \E arg \in JobsArgs, cores \in 1..MaxConcurrency :
           concurrency = concurrencyOf(arg, cores)
    /\ next = 0
    /\ converting = {}
    /\ completedSet = {}
    /\ convertErrors = 0
    /\ phase = "convert"
    /\ entries = <<>>
    /\ dates = <<>>
    /\ ceiling = MAX_CHUNK_SIZE
    /\ countVideos = TRUE
    /\ chunks = <<>>
    /\ archives = <<>>
    /\ manifestOut = NoManifest
    /\ tree = scanned
    /\ resumed = {}
    /\ progress = [sources |-> currentSources, completed |-> <<>>]
    /\ progressFile = Snapshot(progress)
    /\ progressDirty = FALSE
    /\ progressWriting = FALSE
    /\ flushWrite = NoFile
    /\ finalWrite = NoFile
    /\ cache = {}
    /\ runs = 1
    /\ outcome = NoOutcome

InitJobs == StoreInit /\ JobsInit /\ CodecOff

SpecJobs == InitJobs /\ [][NextTool]_vars

\* entries with ids 0..t-1 in ascending order, as a run without failures builds
DenseEntries(t) ==
    {[i \in 1..t |-> [id |-> i - 1, type |-> sc[i].type, date |-> sc[i].month,
                      assetSize |-> IF sc[i].type \in {"photo", "live"} THEN sc[i].size ELSE 0,
                      videoSize |-> IF sc[i].type \in {"video", "live"} THEN sc[i].size ELSE 0]] :
        sc \in Scans(t)}

\* createChunks on its own: any dense entry sequence, any positive ceiling,
\* either source
PlannerInit ==
    /\ scanned = <<>>
    /\ concurrency = 1
    /\ next = 0
    /\ converting = {}
    /\ completedSet = {}
    /\ convertErrors = 0
    /\ phase = "chunks"
    /\ \E t \in 0..MaxAssets : entries \in DenseEntries(t)
    /\ dates = <<>>
    /\ ceiling \in 1..MaxCeiling
    /\ countVideos \in BOOLEAN
    /\ chunks = <<>>
    /\ archives = <<>>
    /\ manifestOut = NoManifest
    /\ tree = <<>>
    /\ resumed = {}
    /\ progress = NoProgress
    /\ progressFile = NoFile
    /\ progressDirty = FALSE
    /\ progressWriting = FALSE
    /\ flushWrite = NoFile
    /\ finalWrite = NoFile
    /\ cache = {entries[j].id : j \in 1..Len(entries)}
    /\ runs = 0
    /\ outcome = NoOutcome

NextPlanner == CreateChunks

InitPlanner == StoreInit /\ PlannerInit /\ CodecOff

SpecPlanner == InitPlanner /\ [][NextPlanner]_vars

\* runs of the producer that may be killed and started again, over a source
\* tree that may change between two runs
ResumeInit ==
    /\ scanned = <<>>
    /\ concurrency = 1
    /\ next = 0
    /\ converting = {}
    /\ completedSet = {}
    /\ convertErrors = 0
    /\ phase = "idle"
    /\ entries = <<>>
    /\ dates = <<>>
    /\ ceiling = MAX_CHUNK_SIZE
    /\ countVideos = TRUE
    /\ chunks = <<>>
    /\ archives = <<>>
    /\ manifestOut = NoManifest
    /\ tree \in SourceTrees
    /\ resumed = {}
    /\ progress = NoProgress
    /\ progressFile = NoFile
    /\ progressDirty = FALSE
    /\ progressWriting = FALSE
    /\ flushWrite = NoFile
    /\ finalWrite = NoFile
    /\ cache = {}
    /\ runs = 0
    /\ outcome = NoOutcome

NextResume ==
    \/ Start
    \/ Kill
    \/ ChangeSources
    \/ TakeNext
    \/ \E i \in converting : ConvertOk(i)
    \/ \E i \in converting : ConvertFail(i)
    \/ SaveProgressDone
    \/ FinalFlush
    \/ FinalFlushDone
    \/ BuildEntries
    \/ CreateChunks
    \/ ReadCacheFails
    \/ WriteManifest
    \/ RemoveCache
    \/ RemoveProgress
    \/ Exit

InitResume == StoreInit /\ ResumeInit /\ CodecOff

SpecResume == InitResume /\ [][NextResume]_vars

(***************************************************************************)
(* The codecs: specifications                                              *)
(***************************************************************************)
NextTar ==
    \/ Pack
    \/ TruncateArchive
    \/ CorruptSizeField
    \/ ParseTar

InitTar == StoreInit /\ ToolOff /\ TarInit /\ DecodeOff /\ EnvelopeOff

SpecTar == InitTar /\ [][NextTar]_vars

NextDecode ==
    \/ DecodeManifest
    \/ InstallManifest
    \/ RefuseManifest

InitDecode == StoreInit /\ ToolOff /\ TarOff /\ DecodeInit /\ EnvelopeOff

SpecDecode == InitDecode /\ [][NextDecode]_vars

NextEnvelope ==
    \/ Seal
    \/ Open

InitEnvelope == StoreInit /\ ToolOff /\ TarOff /\ DecodeOff /\ EnvelopeInit

SpecEnvelope == InitEnvelope /\ [][NextEnvelope]_vars

(***************************************************************************)
(* Properties of the lazy chunk fetcher                                    *)
(***************************************************************************)
\* fetch requests for the key the store sent and has not seen answered: the
\* worker is still working on them, or their answer is not yet dispatched
Unanswered(k) ==
    Cardinality({j \in 1..Len(jobs) : jobs[j].kind = k[1] /\ jobs[j].chunkId = k[2]})
    + Cardinality({j \in 1..Len(outbox) :
                      /\ outbox[j].type \in {"chunk-ready", "chunk-error"}
                      /\ outbox[j].kind = k[1]
                      /\ outbox[j].chunkId = k[2]})

\* the asset ids inside the range of a chunk
ChunkRange(chunkId) ==
    {id \in AssetIds : /\ id >= AlbumChunks[chunkId + 1].startIndex
                       /\ id <= AlbumChunks[chunkId + 1].endIndex}

\* C1: in every step, each (kind, chunkId) has at most one unanswered fetch
\* request, and while the key is ready or in flight no step sends a request for
\* it, whatever getAssetBlob calls are made.
C1_AtMostOneUnanswered ==
    [][\A k \in Keys :
          /\ Unanswered(k)' <= 1
          /\ (pendingChunks[k] \/ k \in loadedChunks)
                => /\ fetchCount'[k] <= fetchCount[k]
                   /\ Unanswered(k)' <= Unanswered(k)]_vars

\* C1 witness: two calls wait on one key for which a single request was sent
C1_TwoWaitersOneRequest ==
    \E k \in Keys : /\ Cardinality(waiters[k]) = 2
                    /\ fetchCount[k] = 1
                    /\ Unanswered(k) = 1

\* C2 as stated: over a session each (kind, chunkId) is fetched at most once.
C2_FetchedAtMostOnce ==
    \A k \in Keys : fetchCount[k] <= 1

\* C2 amended: over a session every fetch of a (kind, chunkId) beyond the first
\* follows a handled chunk-error for it, calls that wait together share one
\* fetch, and the worker answers chunk-ready for the key at most once.
C2_RefetchedOnlyAfterError ==
    \A k \in Keys :
        /\ fetchCount[k] <= errHandled[k] + 1
        /\ readyCount[k] <= 1
        /\ (pendingChunks[k] \/ k \in loadedChunks) => fetchCount[k] = errHandled[k] + 1

\* C2 witness: a key was fetched, failed, was fetched again on a later call and
\* is now ready
C2_RefetchedAndReady ==
    \E k \in Keys : /\ fetchCount[k] = 2
                    /\ errHandled[k] = 1
                    /\ readyCount[k] = 1
                    /\ k \in loadedChunks

\* C3 as stated: the step that handles a chunk-error for a key resolves every
\* call waiting on the key to null and leaves the key neither ready nor in
\* flight.
C3_ErrorResolvesNull ==
    [][\A k \in Keys :
          errHandled'[k] > errHandled[k]
             => /\ \A c \in waiters[k] : calls'[c].pc = "done" /\ calls'[c].res = "null"
                /\ waiters'[k] = {}
                /\ ~pendingChunks'[k]
                /\ k \notin loadedChunks']_vars

\* the key failed: every fetch sent for it was answered by a chunk-error that
\* has been handled, and nothing was asked since
Failed(k) ==
    /\ errHandled[k] > 0
    /\ errHandled[k] = fetchCount[k]

\* C4 as stated, for videos: after a chunk-error for a videos chunk, the next
\* getVideoBlob call for an id inside the chunk sends exactly one new request.
C4_NextCallRefetches ==
    [][\A ch \in ChunkIds, c \in Callers, id \in AssetIds :
          (/\ id \in ChunkRange(ch)
           /\ Failed(<<"videos", ch>>)
           /\ worker = "live"
           /\ getAssetBlob(c, "videos", id))
             => fetchCount'[<<"videos", ch>>] = fetchCount[<<"videos", ch>>] + 1]_vars

\* C4 amended: a request for a key is sent only by a getAssetBlob call for an
\* id inside the chunk, one request per call; handling a chunk-error sends
\* none; and while the worker is live, the next call for an id inside a failed
\* chunk sends exactly one request if the id is absent from the local store and
\* none if it is present.
C4_RetryOnlyOnStoreMiss ==
    [][\A k \in Keys :
          /\ fetchCount'[k] > fetchCount[k]
                => /\ fetchCount'[k] = fetchCount[k] + 1
                   /\ \E c \in Callers, id \in ChunkRange(k[2]) : getAssetBlob(c, k[1], id)
          /\ \A c \in Callers, id \in ChunkRange(k[2]) :
                (Failed(k) /\ worker = "live" /\ getAssetBlob(c, k[1], id))
                   => fetchCount'[k] = fetchCount[k] + (IF idb[k[1]][id] = 0 THEN 1 ELSE 0)]_vars

\* C4 witness: after a handled chunk-error a call asked for the key again
C4_RetriedAfterError ==
    \E k \in Keys : /\ errHandled[k] = 1
                    /\ fetchCount[k] = 2
                    /\ pendingChunks[k]
                    /\ waiters[k] # {}

(***************************************************************************)
(* Properties of the local store and of cache validation                   *)
(***************************************************************************)
\* C5: a getAssetBlob call for an id present in the store of its kind resolves
\* to the stored blob, sends nothing to the worker and leaves pendingChunks,
\* its resolvers and loadedChunks as they were, in every session, a reopened
\* one included.
C5_StoreHitIsFrame ==
    [][\A c \in Callers, kind \in Kinds, id \in AssetIds :
          (idb[kind][id] # 0 /\ getAssetBlob(c, kind, id))
             => /\ calls'[c].pc = "done"
                /\ calls'[c].res = "blob"
                /\ calls'[c].ver = idb[kind][id]
                /\ UNCHANGED <<pendingChunks, waiters, loadedChunks, jobs, outbox,
                               fetchCount, idb>>]_vars

\* C5 witness: in a reopened session with the recorded hash unchanged a call
\* returned a cached blob and no fetch was sent
C5_ReopenedServesCache ==
    /\ initResult = "true"
    /\ worker = "live"
    /\ ~mismatch
    /\ calls["a"].pc = "done"
    /\ calls["a"].sess
    /\ calls["a"].res = "blob"
    /\ fetchCount = ZeroCount

\* C6: in a session whose manifest hash differs from the recorded one, a call
\* made after init succeeded sends a fetch only when nothing persisted before
\* the validation is left in the store, and no such call resolves to a blob
\* persisted before the validation.
C6_ClearedBeforeFetch ==
    [][/\ \A k \in Keys :
             (fetchCount'[k] > fetchCount[k] /\ initResult = "true" /\ mismatch)
                => oldEntries = {} /\ ~deletePending
       /\ \A c \in Callers :
             (calls'[c].pc = "done" /\ calls'[c].sess /\ mismatch') => ~calls'[c].old]_vars

\* C6 witness: after a hash mismatch a call of the new session fetched its
\* chunk and returned the blob of the new build
C6_NewSessionServesNewBlob ==
    /\ mismatch
    /\ initResult = "true"
    /\ calls["a"].pc = "done"
    /\ calls["a"].sess
    /\ calls["a"].res = "blob"
    /\ calls["a"].ver = manifest
    /\ \E k \in Keys : fetchCount[k] = 1 /\ k \in loadedChunks

\* C7: when manifest-decrypted is handled with no hash recorded or with the
\* recorded hash equal to the new one, the store's entries are unchanged, no
\* delete is requested, and the recorded hash is the new hash afterwards.
C7_ValidationKeepsStore ==
    [][(/\ OnManifestDecrypted
        /\ (storedHash = 0 \/ storedHash = Head(outbox).ver))
          => /\ idb' = idb
             /\ idbMeta' = idbMeta
             /\ deletePending' = deletePending
             /\ storedHash' = Head(outbox).ver]_vars

\* C7 witness: a reopened session validated an unchanged hash over a store
\* that holds entries
C7_ValidatedOverCachedEntries ==
    /\ initResult = "true"
    /\ onmessage = "chunk"
    /\ ~mismatch
    /\ storedHash = manifest
    /\ fetchCount = ZeroCount
    /\ \E kind \in Kinds, id \in AssetIds : idb[kind][id] # 0
    /\ calls["a"].pc = "idle"

(***************************************************************************)
(* Properties of the producer's chunk ranges and ids                       *)
(***************************************************************************)
\* the ranges of chs partition [0, t): non-empty, the first starts at 0, each
\* next starts one past the previous end, the last ends at t - 1
RangesPartition(chs, t) ==
    /\ (t = 0) = (Len(chs) = 0)
    /\ \A j \in 1..Len(chs) : chs[j].startIndex <= chs[j].endIndex
    /\ \A j \in 1..(Len(chs) - 1) : chs[j + 1].startIndex = chs[j].endIndex + 1
    /\ Len(chs) > 0 => chs[1].startIndex = 0 /\ chs[Len(chs)].endIndex = t - 1

\* C8: for entries with ids 0..T-1 in ascending order and any positive
\* ceiling, the chunks createChunks returns have ranges that partition [0, T).
C8_RangesPartitionIds ==
    (/\ phase = "manifest"
     /\ \A i \in 1..Len(entries) : entries[i].id = i - 1)
       => RangesPartition(chunks, Len(entries))

\* C8 witness: createChunks split three dense entries into several chunks
C8_SeveralChunksPlanned ==
    /\ phase = "manifest"
    /\ Len(entries) = MaxAssets
    /\ \A i \in 1..Len(entries) : entries[i].id = i - 1
    /\ Len(chunks) >= 2

\* C9 as stated: in the manifest a producer run writes, failed conversions or
\* not, the chunk ranges partition [0, totalAssets).
C9_ManifestRangesCoverTotal ==
    phase = "done" => RangesPartition(manifestOut.chunks, manifestOut.totalAssets)

\* C10 as stated: every id a month group of the written manifest enumerates
\* has a thumbnail entry and a metadata record with that id in the thumbnails
\* archive of the chunk whose range contains it, failed conversions or not.
C10_MonthIdsAreArchiveIds ==
    phase = "done" =>
        \A m \in 1..Len(manifestOut.months) :
            \A id \in manifestOut.months[m].startId ..
                         (manifestOut.months[m].startId + manifestOut.months[m].count - 1) :
                \E j \in 1..Len(manifestOut.chunks) :
                    /\ manifestOut.chunks[j].startIndex <= id
                    /\ id <= manifestOut.chunks[j].endIndex
                    /\ id \in archives[j].thumbs
                    /\ id \in archives[j].meta

(***************************************************************************)
(* Properties of the conversion driver                                     *)
(***************************************************************************)
\* the conversion phase of the running producer is over
Converted == phase \in {"entries", "chunks", "manifest", "done", "cleanup", "exiting"}

\* ids of the scan whose latest conversion succeeded, in whichever run
Succeeded == {i \in 0..(Len(scanned) - 1) : outcome[scanned[i + 1].path] = "ok"}

\* C11: whatever runs were killed before it, a run that gets through its
\* conversion phase ends with the completed set of an uninterrupted run, the
\* ids whose conversion succeeds, and while it converts it never works on an
\* id that the progress file on disk lists as completed
C11_ResumeCompletesWithoutRedoing ==
    /\ Converted => completedSet = Succeeded
    /\ phase = "convert" =>
          \A i \in converting : toConvert[i + 1] \notin SetOf(progressFile.completed)

\* the second run resumed from a record that listed some ids, converted
\* others, and wrote the album
C11_ResumedRunFinished ==
    /\ runs = 2
    /\ phase = "done"
    /\ resumed # {}
    /\ completedSet # resumed

\* the ordered source list a scan of the tree gives
SourcesOf(tr) == [i \in 1..Len(tr) |-> sourceKey(tr[i])]

\* C12: when the producer starts and the progress file holds a record whose
\* source list differs from the fresh scan, the run keeps no completed id,
\* the conversion cache is emptied, the record on disk lists nothing and
\* every scanned asset is to be converted; a start skips completed ids only
\* when the record's list equals the fresh scan
C12_ChangedSourcesStartFresh ==
    [][phase = "idle" /\ phase' = "convert" =>
          /\ progressFile.state = "ok" /\ progressFile.sources # SourcesOf(tree) =>
                /\ completedSet' = {}
                /\ cache' = {}
                /\ progressFile' = Snapshot([sources |-> SourcesOf(tree), completed |-> <<>>])
                /\ toConvert' = [i \in 1..Len(tree) |-> i - 1]
          /\ Len(toConvert') < Len(tree) =>
                /\ progressFile.state = "ok"
                /\ progressFile.sources = SourcesOf(tree)]_vars

\* a second run has just started with an empty cache although an earlier run
\* converted an asset and no run got as far as cleaning up: the resume check
\* found a record of another source list and discarded the cache
C12_StartedFreshAfterChange ==
    /\ runs = 2
    /\ phase = "convert"
    /\ next = 0
    /\ manifestOut = NoManifest
    /\ cache = {}
    /\ \E p \in 1..MaxAssets : outcome[p] = "ok"

\* indexes of toConvert whose conversion this run has finished with an error
FailedInRun ==
    {i \in 0..(next - 1) :
        i \notin converting /\ outcome[scanned[toConvert[i + 1] + 1].path] = "failed"}

\* ids that have an entry in some archive of the given kind
Packed(kind) == UNION {archives[c][kind] : c \in 1..Len(archives)}

\* the chunk archives of the running producer are written
Chunked == phase \in {"manifest", "done", "cleanup", "exiting"}

\* C13: the failure count is the number of conversions of the run that threw;
\* when the conversion phase is over every scanned asset has been converted
\* or has failed, whatever failed before it; and the ids packed into the
\* chunk archives are exactly the ids whose conversion succeeded, in this run
\* or in an earlier one that this run resumed
C13_FailuresCountedOthersPacked ==
    /\ phase \notin {"off", "idle"} => convertErrors = Cardinality(FailedInRun)
    /\ Converted => \A i \in 1..Len(scanned) : outcome[scanned[i].path] # "none"
    /\ Chunked => /\ Packed("thumbs") = Succeeded
                  /\ Packed("meta") = Succeeded
                  /\ Packed("assets") \cup Packed("videos") = Succeeded

\* a resumed run in which a conversion failed and another one succeeded has
\* written its archives
C13_FailureInResumedRunPacked ==
    /\ runs = 2
    /\ Chunked
    /\ resumed # {}
    /\ convertErrors > 0
    /\ completedSet # resumed

(***************************************************************************)
(* Properties of the chunk planner                                         *)
(***************************************************************************)
\* the id ranges of the planned chunks, in order
Ranges == [c \in 1..Len(chunks) |-> <<chunks[c].startIndex, chunks[c].endIndex>>]

\* three assets with originals of 10MB each and a ceiling of 15MB, in units
\* of 5MB
ThreeTens ==
    /\ Len(entries) = 3
    /\ \A j \in 1..3 : entries[j].assetSize = 2 /\ entries[j].videoSize = 0
    /\ ceiling = 3

\* C14: for three assets with originals of 10MB, 10MB, 10MB and a ceiling of
\* 15MB the planner emits chunk [0,1] and then chunk [2,2]: a chunk is sealed
\* only once its tally has reached the ceiling
C14_ThreeTensPlan ==
    phase = "manifest" /\ ThreeTens => Ranges = <<(<<0, 1>>), (<<2, 2>>)>>

\* C14 as stated: the planner emits chunk [0,0] and then chunk [1,2]
C14_ThreeTensAsStated ==
    phase = "manifest" /\ ThreeTens => Ranges = <<(<<0, 0>>), (<<1, 2>>)>>

\* the planner has planned the three assets
C14_ThreeTensPlanned == phase = "manifest" /\ ThreeTens

\* the chunks (indexes into archives) that hold an entry of the asset
ChunksOf(id) ==
    {c \in 1..Len(archives) :
        id \in archives[c].thumbs \cup archives[c].meta \cup archives[c].assets
                   \cup archives[c].videos}

\* C15: every entry handed to createChunks has its thumbnail, its metadata
\* record and its original and video, as far as it has them, in the archives
\* of one and the same chunk and in no other chunk; and with the tally of
\* crypto-file.ts an asset whose original and video sizes together reach the
\* ceiling is the last asset of its chunk
C15_OneChunkPerAsset ==
    phase = "manifest" =>
        \A j \in 1..Len(entries) :
            LET e == entries[j]
            IN /\ Cardinality(ChunksOf(e.id)) = 1
               /\ \A c \in ChunksOf(e.id) :
                     /\ e.id \in archives[c].thumbs
                     /\ e.id \in archives[c].meta
                     /\ e.assetSize > 0 <=> e.id \in archives[c].assets
                     /\ e.videoSize > 0 <=> e.id \in archives[c].videos
                     /\ countVideos /\ e.assetSize + e.videoSize >= ceiling =>
                           /\ chunks[c].endIndex = e.id
                           /\ \A k \in archives[c].thumbs : k <= e.id

\* an asset that alone reaches the ceiling was planned before the last
\* asset, and the plan has several chunks
C15_OversizedAssetPlanned ==
    /\ phase = "manifest"
    /\ countVideos
    /\ Len(chunks) > 1
    /\ \E j \in 1..(Len(entries) - 1) :
          entries[j].assetSize + entries[j].videoSize >= ceiling

\* entries of chunk c (an index into chunks) that have an original / a video
WithOriginal(c) ==
    {j \in 1..Len(entries) :
        /\ chunks[c].startIndex <= entries[j].id /\ entries[j].id <= chunks[c].endIndex
        /\ entries[j].assetSize > 0}

WithVideo(c) ==
    {j \in 1..Len(entries) :
        /\ chunks[c].startIndex <= entries[j].id /\ entries[j].id <= chunks[c].endIndex
        /\ entries[j].videoSize > 0}

\* C16: for each sealed chunk the thumbnails archive, with the metadata
\* entry, and the originals archive are always written, the originals
\* archive also when no asset of the chunk has an original; a videos archive
\* is written exactly when an asset of the chunk has a video, and the
\* chunk's videosFile is null exactly when none has
C16_ArchivesWritten ==
    phase = "manifest" =>
        \A c \in 1..Len(chunks) :
            /\ chunks[c].thumbnailsFile \in archives[c].files
            /\ archives[c].meta = archives[c].thumbs
            /\ chunks[c].originalsFile \in archives[c].files
            /\ <<"videos", chunks[c].chunkId>> \in archives[c].files <=> WithVideo(c) # {}
            /\ chunks[c].videosFile = <<>> <=> WithVideo(c) = {}
            /\ chunks[c].videosFile # <<>> => chunks[c].videosFile \in archives[c].files

\* C16 as stated, the originals archive: it is written only if an asset of
\* the chunk has an original
C16_OriginalsOnlyIfAny ==
    phase = "manifest" =>
        \A c \in 1..Len(chunks) :
            chunks[c].originalsFile \in archives[c].files => WithOriginal(c) # {}

\* a chunk of videos only was sealed, and its originals archive was written
C16_VideoOnlyChunkSealed ==
    /\ phase = "manifest"
    /\ \E c \in 1..Len(chunks) :
          /\ WithOriginal(c) = {}
          /\ WithVideo(c) # {}
          /\ chunks[c].originalsFile \in archives[c].files

(***************************************************************************)
(* Properties of the codecs                                                *)
(***************************************************************************)
\* the mapping that was archived, as a set of <<name, data>> pairs
Archived == {<<tarFiles[i].name, tarFiles[i].data>> : i \in 1..Len(tarFiles)}

\* C17: parsing the archive of a mapping with unique printable names of up
\* to 100 bytes gives the mapping back, empty blobs and blobs of a whole
\* number of blocks included
C17_TarRoundTrip ==
    tarStage = "parsed" /\ tarDamage = "none" =>
        ~tarOut.error /\ tarOut.files = Archived

\* C18: parsing a stream whose final blob is shorter than its header's size
\* field, or one with a size field that is no octal number, ends with an
\* error and registers no entry
C18_MalformedArchiveRejected ==
    tarStage = "parsed" /\ tarDamage # "none" =>
        tarOut.error /\ tarOut.files = {}

RECURSIVE Extents(_)
Extents(chs) ==
    IF chs = <<>> THEN 0
    ELSE chs[1].endIndex - chs[1].startIndex + 1 + Extents(Tail(chs))

\* the chunk ranges of the decrypted manifest are not contiguous, or its
\* totalAssets is not the sum of their extents
Malformed(m) ==
    \/ \E c \in 2..Len(m.chunks) : m.chunks[c].startIndex # m.chunks[c - 1].endIndex + 1
    \/ m.totalAssets # Extents(m.chunks)

\* C19: when the decrypted manifest has non-contiguous chunk ranges, or a
\* totalAssets that differs from the sum of the chunk extents, init resolves
\* false and the store's manifest stays null
C19_MalformedManifestRejected ==
    mfIn.json /\ Malformed(mfIn) /\ mfResult \in {"true", "false"} =>
        mfResult = "false" /\ mfManifest = <<>>

\* C20: the envelope encrypt returns is the 12 byte nonce followed by the
\* ciphertext and its tag, and decrypt under the same key, which takes the
\* first 12 bytes as the nonce, returns exactly the payload
C20_SealOpenRoundTrip ==
    /\ envStage \in {"sealed", "opened"} =>
          /\ Len(envIv) = 12
          /\ Len(envSealed) = 12 + Len(envPayload) + 16
          /\ SubSeq(envSealed, 1, 12) = envIv
          /\ SubSeq(envSealed, 13, Len(envSealed)) = GcmEncrypt(envKey, envIv, envPayload)
    /\ envStage = "opened" => ~envOpened.error /\ envOpened.data = envPayload

\* a payload of MaxPayload bytes was sealed under a non-zero nonce and opened
C20_PayloadOpened ==
    /\ envStage = "opened"
    /\ Len(envPayload) = MaxPayload
    /\ envIv # Zeros(12)

(***************************************************************************)
(* C21                                                                     *)
(***************************************************************************)
\* the store takes the error of a manifest.enc that failed authentication
AuthFailureHandled ==
    /\ error # "decrypt failed"
    /\ error' = "decrypt failed"

\* C21: when the manifest fails authentication, the step of the store that
\* handles the failure resolves init false, terminates the worker and drops
\* the store's reference to it, and changes neither the manifest, the groups,
\* the recorded manifest hash nor the local store.
C21_AuthFailureLeavesStoreAlone ==
    [][AuthFailureHandled =>
          /\ initResult' = "false"
          /\ worker' = "null"
          /\ wKey' = "none"
          /\ strays' = strays
          /\ manifest' = manifest
          /\ groups' = groups
          /\ storedHash' = storedHash
          /\ idb' = idb
          /\ idbMeta' = idbMeta]_vars

\* a wrong password was refused in a browser whose store holds the hash and
\* entries of an earlier session
C21_RefusedOverCachedSession ==
    /\ error = "decrypt failed"
    /\ initResult = "false"
    /\ worker = "null"
    /\ storedHash # 0
    /\ manifest # 0
    /\ \E k \in Kinds, i \in AssetIds : idb[k][i] # 0

(***************************************************************************)
(* C22                                                                     *)
(***************************************************************************)
\* handleLogin (+layout.svelte 27-28): the text the login form shows once
\* init resolved false, `store.error ?? 'Wrong password or album not found'`
handleLogin(storeError) ==
    IF storeError = "null" THEN "Wrong password or album not found" ELSE storeError

\* the failed open whose manifest fetch found no album
MissingAlbumRefused ==
    /\ initResult = "false"
    /\ error = "HTTP 404"

\* C22: every failed open shows one and the same message: an open that
\* failed because the album is missing shows the text that an open with a
\* wrong password shows.
C22_FailedOpensShowOneMessage ==
    MissingAlbumRefused => handleLogin(error) = handleLogin("decrypt failed")

(***************************************************************************)
(* C23                                                                     *)
(***************************************************************************)
\* the local store holds a blob under every numeric id of the key's archive
Persisted(k) == \A id \in ArchiveIds(k[1], k[2]) : idb[k[1]][id] # 0

\* C23: in the step that marks a chunk ready, every entry of its archive
\* with a numeric id is already in the local store under that id, and each
\* waiter the step wakes re-reads the store after these writes: a waiter whose
\* id is in the archive resolves to the blob.
C23_ReadyOnlyAfterPersisted ==
    [][\A k \in Keys :
          (k \in loadedChunks' /\ k \notin loadedChunks) =>
              /\ Persisted(k)
              /\ ArchiveIds(k[1], k[2]) # {}
              /\ \A c \in waiters[k] :
                    /\ calls'[c].pc = "done"
                    /\ (calls[c].id \in ArchiveIds(k[1], k[2])) => (calls'[c].res = "blob")]_vars

\* one fetch served two callers: both waited on the chunk and both resolved
\* to a blob once it was ready
C23_WaitersWokenWithBlobs ==
    \E k \in loadedChunks :
        /\ Persisted(k)
        /\ fetchCount[k] = 1
        /\ \A o \in Keys \ {k} : fetchCount[o] = 0
        /\ Cardinality(ArchiveIds(k[1], k[2])) = 1
        /\ \A c \in Callers : calls[c].pc = "done" /\ calls[c].res = "blob"

(***************************************************************************)
(* C24                                                                     *)
(***************************************************************************)
\* C24: after a validation that found another hash recorded, the new hash
\* is in localStorage only when no entry persisted under the old manifest is
\* left in the local store.
C24_NewHashOverWipedStore ==
    (mismatch /\ storedHash = manifest) => oldEntries = {}

(***************************************************************************)
(* C25                                                                     *)
(***************************************************************************)
\* original and video bytes of the entries of chunk c (an index into chunks)
\* with ids up to last
PayloadUpTo(c, last) ==
    Sum([j \in 1..Len(entries) |->
            IF chunks[c].startIndex <= entries[j].id /\ entries[j].id <= last
            THEN entries[j].assetSize + entries[j].videoSize ELSE 0])

\* the plan seals each chunk at the first asset with which the original and
\* video bytes of the chunk reach the ceiling, or at the last asset
SealedAtCeiling ==
    /\ entries # <<>> =>
          /\ chunks # <<>>
          /\ chunks[Len(chunks)].endIndex = entries[Len(entries)].id
    /\ \A c \in 1..Len(chunks) :
          /\ c < Len(chunks) => PayloadUpTo(c, chunks[c].endIndex) >= ceiling
          /\ PayloadUpTo(c, chunks[c].endIndex - 1) < ceiling

\* C25: the planner seals a chunk exactly when the tally of original and
\* video bytes, counted from 0 at the chunk's first asset, has reached the
\* ceiling with the asset just added, or the asset is the last one: every
\* chunk but the last has a tally of at least the ceiling, and every chunk
\* without its last asset has a tally below the ceiling.
C25_SealedWhenTallyReachesCeiling ==
    phase = "manifest" => SealedAtCeiling

(***************************************************************************)
(* C26                                                                     *)
(***************************************************************************)
\* writeFile calls on the progress file that have not settled
WritesInFlight ==
    (IF flushWrite # NoFile THEN 1 ELSE 0) + (IF finalWrite # NoFile THEN 1 ELSE 0)

\* C26: at any time of a run at most one write of the progress file is in
\* flight, the final flush after mapParallel included.
C26_OneWriteInFlight ==
    WritesInFlight <= 1

(***************************************************************************)
(* C27                                                                     *)
(***************************************************************************)
\* mapParallel has handed out every item and every conversion has returned;
\* no write of the progress file is in flight; the file is not yet removed
ConversionsAndWritesSettled ==
    /\ phase \in {"convert", "flush", "entries", "chunks", "manifest", "done", "cleanup"}
    /\ next = Len(toConvert)
    /\ converting = {}
    /\ WritesInFlight = 0

\* C27: once every conversion has finished and every started write of the
\* progress file has settled, the file holds the completed list of the
\* in-memory record, whose ids are the completed set.
C27_NoCompletionLost ==
    ConversionsAndWritesSettled =>
        /\ progressFile.state = "ok"
        /\ progressFile.completed = progress.completed
        /\ SetOf(progressFile.completed) = completedSet

\* three conversions completed under two pool workers, and all writes settled
C27_ThreeCompletionsPersisted ==
    /\ ConversionsAndWritesSettled
    /\ concurrency = 2
    /\ Cardinality(completedSet) = 3
    /\ progressFile = Snapshot(progress)

(***************************************************************************)
(* C28                                                                     *)
(***************************************************************************)
\* C28: at most `concurrency` conversions are in progress at any time, and
\* the indexes of the to-convert list are handed out by the cursor one by
\* one: each step that starts a conversion takes the index the cursor points
\* at, which no worker holds or held before, and moves the cursor past it.
C28_PoolBoundAndCursor ==
    [][/\ Cardinality(converting) <= concurrency
       /\ Cardinality(converting') <= concurrency'
       /\ \A i \in converting : i < next
       /\ (phase = "convert" /\ phase' = "convert") =>
             /\ next' \in {next, next + 1}
             /\ converting' \ converting = IF next' = next THEN {} ELSE {next}
             /\ next' = next + 1 => converting' = converting \cup {next}]_vars

\* both workers of a pool of two are converting and an item is left to take
C28_PoolSaturated ==
    /\ phase = "convert"
    /\ concurrency = 2
    /\ Cardinality(converting) = 2
    /\ next < Len(toConvert)

(***************************************************************************)
(* C29                                                                     *)
(***************************************************************************)
\* the run is between the start of its conversion phase and the removal of
\* the progress file
BeforeRemoval ==
    phase \in {"convert", "flush", "entries", "chunks", "manifest", "done", "cleanup"}

\* C29: from the start of the conversion phase until its removal the
\* progress file holds a record; a run removes the record and empties the
\* cache only after the chunks and the manifest have been written; and a run
\* that stops before the removal leaves a record on disk.
C29_RecordKeptUntilAlbumWritten ==
    [][/\ BeforeRemoval => progressFile.state = "ok"
       /\ (progressFile.state = "ok" /\ progressFile'.state = "none") => phase = "cleanup"
       /\ (BeforeRemoval /\ ~(cache \subseteq cache')) => phase = "done"
       /\ (BeforeRemoval /\ phase' = "idle") => progressFile'.state = "ok"]_vars

(***************************************************************************)
(* C30                                                                     *)
(***************************************************************************)
\* C30: once an init call has resolved true, its own timeout is no longer
\* armed and never fires, and no step of the session both takes the worker
\* from the store and sets the timeout error, whatever chunk fetches are in
\* progress.  (The timeout of an earlier, superseded init call is another
\* timer.)
C30_TimeoutOnlyDuringHandshake ==
    [][initResult = "true" =>
          /\ ~timer
          /\ ~InitTimeout
          /\ (worker = "live" /\ worker' = "null") =>
                (error' = error \/ error' # "Connection timeout")]_vars

\* after the handshake a chunk fetch is in progress with a caller waiting
C30_FetchingAfterHandshake ==
    /\ initResult = "true"
    /\ worker = "live"
    /\ ~timer
    /\ jobs # <<>>
    /\ \E c \in Callers : calls[c].pc = "waiting"

(***************************************************************************)
(* C31                                                                     *)
(***************************************************************************)
\* workers created by the store that have not been terminated
LiveWorkers == strays + (IF worker = "live" THEN 1 ELSE 0)

\* a worker is handling a message, holds a key or a connection, or has
\* posted a message that is not dispatched yet
WorkerActive ==
    \/ wKey # "none"
    \/ wConn
    \/ wStage # "idle"
    \/ jobs # <<>>
    \/ outbox # <<>>

\* C31: at most one worker created by the store is not terminated, no
\* worker runs without the store referring to it, and whatever worker is
\* active is the one the store refers to.
C31_OneLiveWorker ==
    /\ LiveWorkers <= 1
    /\ strays = 0
    /\ WorkerActive => worker = "live"

\* a second init superseded a first one whose timeout is still armed, and
\* the second worker is at work
C31_SupersedingWorkerAtWork ==
    /\ staleTimers > 0
    /\ worker = "live"
    /\ initResult = "pending"
    /\ wKey # "none"

(***************************************************************************)
(* C32                                                                     *)
(***************************************************************************)
\* nothing the store keeps for a key other than k changes in the step
OtherKeysKept(k) ==
    \A o \in Keys \ {k} :
        /\ pendingChunks'[o] = pendingChunks[o]
        /\ (o \in loadedChunks') <=> (o \in loadedChunks)
        /\ waiters'[o] = waiters[o]
        /\ \A c \in waiters[o] : calls'[c] = calls[c]
        /\ fetchCount'[o] = fetchCount[o]

\* C32: neither the step in which the worker answers chunk-error for a key
\* nor the step in which the store handles that answer changes anything for
\* another key: the other keys stay unrequested, in flight or ready as they
\* were, their waiters keep waiting, the fetches of other keys go on, and
\* the local store keeps every entry.
C32_ChunkErrorTouchesOneKey ==
    [][/\ \A k \in Keys :
             errHandled'[k] > errHandled[k] =>
                 /\ OtherKeysKept(k)
                 /\ idb' = idb
                 /\ idbMeta' = idbMeta
                 /\ jobs' = jobs
       /\ (/\ Len(outbox') = Len(outbox) + 1
           /\ outbox'[Len(outbox')].type = "chunk-error") =>
                 LET k == <<outbox'[Len(outbox')].kind, outbox'[Len(outbox')].chunkId>>
                 IN /\ OtherKeysKept(k)
                    /\ idb' = idb
                    /\ idbMeta' = idbMeta
                    /\ \A j \in 1..Len(jobs) :
                          <<jobs[j].kind, jobs[j].chunkId>> # k =>
                              \E n \in 1..Len(jobs') : jobs'[n] = jobs[j]]_vars

\* the error of one key was handled while a caller waits on another key
\* whose fetch is in flight
C32_ErrorBesideFetchInFlight ==
    \E k \in Keys :
        /\ errHandled[k] > 0
        /\ \E o \in Keys \ {k} :
              /\ pendingChunks[o]
              /\ waiters[o] # {}
              /\ \E j \in 1..Len(jobs) : <<jobs[j].kind, jobs[j].chunkId>> = o

(***************************************************************************)
(* C33                                                                     *)
(***************************************************************************)
\* C33: for the ascending date list main hands to generateManifest, the
\* month groups of the manifest partition the ids 0..N-1 in ascending order:
\* the first group starts at 0, each next group starts where the previous
\* one ends, every group holds at least one id and only ids of its month,
\* adjacent groups are of different months, and the counts sum to
\* totalAssets = N.
C33_MonthGroupsPartitionIds ==
    phase = "done" =>
        LET m == manifestOut.months
            N == Len(dates)
        IN /\ manifestOut.totalAssets = N
           /\ (m = <<>>) <=> (N = 0)
           /\ m # <<>> => m[1].startId = 0
           /\ \A g \in 1..Len(m) :
                 /\ m[g].count >= 1
                 /\ \A id \in m[g].startId..(m[g].startId + m[g].count - 1) :
                       id < N /\ dates[id + 1] = m[g].date
           /\ \A g \in 1..(Len(m) - 1) :
                 /\ m[g + 1].startId = m[g].startId + m[g].count
                 /\ m[g + 1].date # m[g].date
           /\ Sum([g \in 1..Len(m) |-> m[g].count]) = N

\* three assets of two months gave two groups, the second of them with two
\* assets
C33_TwoMonthsGrouped ==
    /\ phase = "done"
    /\ Len(dates) = 3
    /\ Len(manifestOut.months) = 2
    /\ manifestOut.months[2].count = 2

(***************************************************************************)
(* C34                                                                     *)
(***************************************************************************)
\* C34: when the timeout of a superseded init call fires, the error and
\* loading state of the store stay as the later session left them, and the
\* later session's worker stays referenced and running.
C34_SupersededTimeoutLeavesSession ==
    [][staleTimers' < staleTimers =>
          /\ error' = error
          /\ loading' = loading
          /\ worker' = worker
          /\ <<wKey, wConn, wStage, jobs, outbox>>' = <<wKey, wConn, wStage, jobs, outbox>>]_vars

(***************************************************************************)
(* C35                                                                     *)
(***************************************************************************)
\* the current worker has answered manifest-decrypted: the answer was
\* handled by the store or is on its way to it
ManifestAnswered ==
    \/ onmessage = "chunk"
    \/ \E n \in 1..Len(outbox) : outbox[n].type = "manifest-decrypted"

\* C35: the store posts a fetch request to a worker only after that worker
\* has answered manifest-decrypted.
C35_NoFetchBeforeManifest ==
    [][(\E k \in Keys : fetchCount'[k] > fetchCount[k]) => ManifestAnswered]_vars

(***************************************************************************)
(* C36: the viewer under fair scheduling.  The worker runs every handler   *)
(* it started to its response, and the page dispatches every message       *)
(* event; init, destroy, the timeouts, worker errors and getAssetBlob      *)
(* calls happen or not.                                                    *)
(***************************************************************************)
WorkerStep ==
    \/ handleInit
    \/ handleDecryptManifest
    \/ \E i \in 1..Len(jobs) : FetchAndDecode(i)
    \/ \E i \in 1..Len(jobs) : StoreAssets(i)
    \/ \E i \in 1..Len(jobs) : StoreMeta(i)

Dispatch ==
    \/ OnInitReady
    \/ OnManifestDecrypted
    \/ OnManifestError
    \/ OnUnhandledMessage
    \/ handleChunkMessage

SpecFetchLive == InitFetch /\ [][NextFetch]_vars /\ WF_vars(WorkerStep) /\ WF_vars(Dispatch)

\* C36: a getAssetBlob call that waits on a chunk while the store holds a
\* worker resolves, unless init or destroy intervenes (init drops the call's
\* resolver) or the worker is lost.
C36_EveryCallResolves ==
    \A c \in Callers :
        (calls[c].pc = "waiting" /\ worker = "live")
            ~> (calls[c].pc # "waiting" \/ worker = "null")

(***************************************************************************)
(* C37                                                                     *)
(***************************************************************************)
\* the worker answers job i with chunk-error in this step
AnswersChunkError(i) ==
    /\ jobs' = RemoveAt(jobs, i)
    /\ Len(outbox') = Len(outbox) + 1
    /\ outbox'[Len(outbox')].type = "chunk-error"
    /\ outbox'[Len(outbox')].kind = jobs[i].kind
    /\ outbox'[Len(outbox')].chunkId = jobs[i].chunkId

\* StoredFor once the step is taken
StoredAfter(kind, chunkId) ==
    [assets |-> [id \in ArchiveIds(kind, chunkId) |-> idb'[kind][id]],
     meta |-> [id \in ArchiveIds(kind, chunkId) |->
                  IF kind = "thumbnails" THEN idbMeta'[id] ELSE 0]]

\* C37: when the worker answers a fetch request with chunk-error, the asset
\* store and the meta store hold for that request what they held before it.
C37_ChunkErrorWroteNothing ==
    [][\A i \in 1..Len(jobs) :
           AnswersChunkError(i) =>
               StoredAfter(jobs[i].kind, jobs[i].chunkId) = jobs[i].before]_vars

(***************************************************************************)
(* C38                                                                     *)
(***************************************************************************)
\* .progress.json holds a record whose source list is that of the tree
RecordMatches ==
    /\ progressFile.state = "ok"
    /\ SameSources(progressFile.sources, [i \in 1..Len(tree) |-> sourceKey(tree[i])])

\* the completed list holds each id once, and only ids of scanned assets
CompletedWellFormed ==
    /\ \A i, j \in 1..Len(progressFile.completed) :
           i # j => progressFile.completed[i] # progressFile.completed[j]
    /\ SetOf(progressFile.completed) \subseteq 0..(Len(tree) - 1)

\* C38: the ids a matching persisted record lists as completed have their
\* conversion-cache files, and the list is free of duplicates and of ids
\* outside the scanned assets.
C38_CompletedIdsAreCached ==
    RecordMatches =>
        /\ SetOf(progressFile.completed) \subseteq cache
        /\ CompletedWellFormed

(***************************************************************************)
(* C39                                                                     *)
(***************************************************************************)
\* step 4 is over: the run is at step 5 or beyond
ConversionOver == phase \in {"entries", "chunks", "manifest", "done", "cleanup", "exiting"}

\* C39: whatever -j value the run was started with, once step 4 is over the
\* pool's cursor has passed every pending asset once and each of them has
\* the outcome of its conversion attempt.
C39_EveryPendingAssetAttempted ==
    ConversionOver =>
        /\ next = Len(toConvert)
        /\ \A n \in 1..Len(toConvert) : outcome[scanned[toConvert[n] + 1].path] # "none"

====
